---- MODULE Spec2Model ----
(***************************************************************************)
(* A model of the Attribution backend (class Backend and the function      *)
(* fairlyAllocateCredit).                                                  *)
(*                                                                         *)
(* Units.  Instants and durations are whole days: every duration the       *)
(* backend builds is days(n) for an integer n, and the epoch offset        *)
(* p * period is a whole number of days for the rng outputs drawn here.    *)
(* Epsilon is carried in micro-epsilons (epsilon * 1000000), and all       *)
(* arithmetic is exact (rationals as scaled integers).                     *)
(***************************************************************************)
EXTENDS Integers, Sequences, FiniteSets, TLC

VARIABLES
    enabled,                   \* Backend.enabled
    impressions,               \* Backend.#impressions
    epochStartStore,           \* Backend.#epochStartStore
    privacyBudgetStore,        \* Backend.#privacyBudgetStore
    lastBrowsingHistoryClear,  \* Backend.#lastBrowsingHistoryClear
    now,                       \* the instant Delegate.now() returns
    last,                      \* the last call: its arguments and its outcome
    steps                      \* the number of steps taken so far

vars == <<enabled, impressions, epochStartStore, privacyBudgetStore,
          lastBrowsingHistoryClear, now, last, steps>>

(***************************************************************************)
(* Bounds of the model.                                                    *)
(***************************************************************************)
MaxSteps == 5

\* fairlyAllocateCredit on its own: the credit vectors have up to
\* MaxCreditLength entries from 1 to MaxCreditEntry, the value is from 1 to
\* MaxAllocatedValue.
MaxCreditLength == 3
MaxCreditEntry == 3
MaxAllocatedValue == 3

\* The checks on value and maxValue on their own: the numbers are up to
\* MaxValueUnits units from 0.
MaxValueUnits == 4

(***************************************************************************)
(* Delegate configuration.                                                 *)
(***************************************************************************)
maxLookbackDays == 3
maxHistogramSize == 2
maxCreditSize == 2
maxConversionSitesPerImpression == 2
maxConversionCallersPerImpression == 2
privacyBudgetMicroEpsilons == 500
privacyBudgetEpoch == 2
MAX_CONVERSION_EPSILON == 4294

Sites == {"a", "b"}
Undefined == "undefined"
Null == -1000

\* Delegate.random(): the outputs k / RandDen.  The backend's calls draw k
\* from Rand (0 and 1/2: the epoch offset p * period is then a whole number
\* of days); the calls of fairlyAllocateCredit on its own draw k from
\* AllocateRand (0, 1/2 and 11/12: for every p1 strictly between 0 and 1
\* with a denominator up to RandDen, an output below p1 and one not below).
RandDen == 12
Rand == {k \in 0 .. (RandDen - 1) : (2 * k) % RandDen = 0}
AllocateRand == {0, RandDen \div 2, RandDen - 1}

days(n) == n

(***************************************************************************)
(* Sequence helpers.                                                       *)
(***************************************************************************)
RECURSIVE SumSeq(_)
SumSeq(s) == IF s = <<>> THEN 0 ELSE Head(s) + SumSeq(Tail(s))

Min(a, b) == IF a < b THEN a ELSE b

\* Mutant: the all-zero histogram always has the largest size allowed.
allZeroHistogram_MaxSize(size) == [i \in 1 .. maxHistogramSize |-> 0]

allZeroHistogram(size) == [i \in 1 .. size |-> 0]

(***************************************************************************)
(* Epoch oracle.                                                           *)
(***************************************************************************)
\* Mutant: the origin is drawn anew on every call.
EpochStoreAfter_Redraws(store, site, t, p) ==
    [store EXCEPT ![site] = t - (p * privacyBudgetEpoch) \div RandDen]

\* #getCurrentEpoch, the store after the call: an absent origin is set to
\* t - p * period.
EpochStoreAfter(store, site, t, p) ==
    IF store[site] # Null THEN store
    ELSE [store EXCEPT ![site] = t - (p * privacyBudgetEpoch) \div RandDen]

\* #getCurrentEpoch, the value returned, on a store that holds the origin.
getCurrentEpoch(store, site, t) ==
    (t - store[site]) \div privacyBudgetEpoch

\* Mutant: the start epoch does not look at the last clear.
getStartEpoch_IgnoresClear(store, clear, site, t) ==
    getCurrentEpoch(store, site, t - days(maxLookbackDays))

\* #getStartEpoch on a store that holds the origin.
getStartEpoch(store, clear, site, t) ==
    LET earliestEpochIndex == getCurrentEpoch(store, site, t - days(maxLookbackDays))
        clearEpoch == getCurrentEpoch(store, site, clear) + 2
    IN  IF clear # Null /\ clearEpoch > earliestEpochIndex
        THEN clearEpoch ELSE earliestEpochIndex

(***************************************************************************)
(* Matcher.                                                                *)
(***************************************************************************)
\* Mutant: the matcher does not look at the conversion callers of the
\* impression.
Matches_AnyConversionCaller(store, impression, topLevelSite, intermediarySite, epoch, t, options) ==
    LET impressionCaller ==
            IF impression.intermediarySite # Undefined
            THEN impression.intermediarySite ELSE impression.impressionSite
    IN  /\ getCurrentEpoch(store, topLevelSite, impression.timestamp) = epoch
        /\ ~(t > impression.timestamp + impression.lifetime)
        /\ ~(t > impression.timestamp + options.lookback)
        /\ ~(impression.conversionSites # {}
              /\ topLevelSite \notin impression.conversionSites)
        /\ ~(options.matchValues # {}
              /\ impression.matchValue \notin options.matchValues)
        /\ ~(options.impressionSites # {}
              /\ impression.impressionSite \notin options.impressionSites)
        /\ ~(options.impressionCallers # {}
              /\ impressionCaller \notin options.impressionCallers)

\* The body of the loop of #commonMatchingLogic: whether `impression` is
\* added to the matching set for `epoch`.
Matches(store, impression, topLevelSite, intermediarySite, epoch, t, options) ==
    LET conversionCaller ==
            IF intermediarySite # Undefined THEN intermediarySite ELSE topLevelSite
        impressionCaller ==
            IF impression.intermediarySite # Undefined
            THEN impression.intermediarySite ELSE impression.impressionSite
    IN  /\ getCurrentEpoch(store, topLevelSite, impression.timestamp) = epoch
        /\ ~(t > impression.timestamp + impression.lifetime)
        /\ ~(t > impression.timestamp + options.lookback)
        /\ ~(impression.conversionSites # {}
              /\ topLevelSite \notin impression.conversionSites)
        /\ ~(impression.conversionCallers # {}
              /\ conversionCaller \notin impression.conversionCallers)
        /\ ~(options.matchValues # {}
              /\ impression.matchValue \notin options.matchValues)
        /\ ~(options.impressionSites # {}
              /\ impression.impressionSite \notin options.impressionSites)
        /\ ~(options.impressionCallers # {}
              /\ impressionCaller \notin options.impressionCallers)

\* Mutant: the matcher looks at the epoch, the lifetime and the lookback
\* only.
commonMatchingLogic_TimeOnly(imps, store, topLevelSite, intermediarySite, epoch, t, options) ==
    LET Test(i) == /\ getCurrentEpoch(store, topLevelSite, i.timestamp) = epoch
                   /\ ~(t > i.timestamp + i.lifetime)
                   /\ ~(t > i.timestamp + options.lookback)
    IN  SelectSeq(imps, Test)

\* #commonMatchingLogic: the matching impressions, in storage order (the
\* insertion order of the Set it returns).
commonMatchingLogic(imps, store, topLevelSite, intermediarySite, epoch, t, options) ==
    LET Test(i) == Matches(store, i, topLevelSite, intermediarySite, epoch, t, options)
    IN  SelectSeq(imps, Test)

(***************************************************************************)
(* Credit allocation.  The entries of roundedCredit are rationals with     *)
(* denominator sumCredit; the model carries their numerators.              *)
(***************************************************************************)
\* Mutant: p1 is the leader's share, incr1 / (incr1 + incr2).
p1_OfLeader(incr1, incr2) == [num |-> incr1, den |-> incr1 + incr2]

\* p1 = incr2 / (incr1 + incr2), as the rational num / den (den is not 0
\* where the code computes p1 from fractions that are not both 0).
p1(incr1, incr2) == [num |-> incr2, den |-> incr1 + incr2]

\* r < p1 for r = k / RandDen (false when p1 is 0 / 0, NaN in the code).
RandBelow(k, incr1, incr2) ==
    LET p == p1(incr1, incr2)
    IN  IF p.den > 0
        THEN k * p.den < p.num * RandDen
        ELSE k * p.den > p.num * RandDen

\* Mutant: no pair is skipped.
BothWhole_Never(frac1, frac2) == FALSE

\* frac1 === 0 && frac2 === 0: the pair is skipped.
BothWhole(frac1, frac2) == frac1 = 0 /\ frac2 = 0

\* Mutant: the pair is always rounded up.
Increments_AlwaysUp(frac1, frac2, sumCredit) ==
    <<sumCredit - frac1, sumCredit - frac2>>

\* [incr1, incr2] (numerators over sumCredit).
Increments(frac1, frac2, sumCredit) ==
    IF frac1 + frac2 > sumCredit
    THEN <<sumCredit - frac1, sumCredit - frac2>>
    ELSE <<-frac1, -frac2>>

\* Mutant: the increment is not taken from the leader.
PairStep_NoSubtract(roundedCredit, sumCredit, idx1, n, swap) ==
    LET frac1 == roundedCredit[idx1 + 1] % sumCredit
        frac2 == roundedCredit[n + 1] % sumCredit
        incrs == Increments(frac1, frac2, sumCredit)
        incr  == IF swap THEN incrs[1] ELSE incrs[2]
        new1  == IF swap THEN n ELSE idx1
        new2  == IF swap THEN idx1 ELSE n
    IN  [credit |-> [roundedCredit EXCEPT ![new2 + 1] = @ + incr], idx1 |-> new1]

\* The body of the loop for the pair (idx1, n) that is not skipped, `swap`
\* being r < p1: the array and the leader after it.
PairStep(roundedCredit, sumCredit, idx1, n, swap) ==
    LET frac1 == roundedCredit[idx1 + 1] % sumCredit
        frac2 == roundedCredit[n + 1] % sumCredit
        incrs == Increments(frac1, frac2, sumCredit)
        incr  == IF swap THEN incrs[1] ELSE incrs[2]
        new1  == IF swap THEN n ELSE idx1
        new2  == IF swap THEN idx1 ELSE n
        added == [roundedCredit EXCEPT ![new2 + 1] = @ + incr]
        moved == [added EXCEPT ![new1 + 1] = @ - incr]
    IN  [credit |-> moved, idx1 |-> new1]

\* The loop of fairlyAllocateCredit from index n (0-based, as in the code)
\* with leader idx1; rs holds the rng outputs still to be drawn.  The result
\* is the array after the loop and the outputs left.
RECURSIVE AllocateLoop(_, _, _, _, _)
AllocateLoop(roundedCredit, sumCredit, idx1, n, rs) ==
    IF ~(n < Len(roundedCredit)) THEN [credit |-> roundedCredit, rest |-> rs]
    ELSE
    LET frac1 == roundedCredit[idx1 + 1] % sumCredit
        frac2 == roundedCredit[n + 1] % sumCredit
        incrs == Increments(frac1, frac2, sumCredit)
        swap  == RandBelow(Head(rs), incrs[1], incrs[2])
        step  == PairStep(roundedCredit, sumCredit, idx1, n, swap)
    IN  IF BothWhole(frac1, frac2)
        THEN AllocateLoop(roundedCredit, sumCredit, idx1, n + 1, rs)
        ELSE AllocateLoop(step.credit, sumCredit, step.idx1, n + 1, Tail(rs))

\* Math.round of the rational num / den (den > 0): halves round up.
MathRound(num, den) == (2 * num + den) \div (2 * den)

\* fairlyAllocateCredit with the rng outputs rs; also the outputs not drawn.
AllocateCredit(credit, value, rs) ==
    LET sumCredit == SumSeq(credit)
        start == [i \in 1 .. Len(credit) |-> value * credit[i]]
        done  == AllocateLoop(start, sumCredit, 0, 1, rs)
    IN  [credit |-> [i \in 1 .. Len(credit) |-> MathRound(done.credit[i], sumCredit)],
         rest   |-> done.rest]

fairlyAllocateCredit(credit, value, rs) == AllocateCredit(credit, value, rs).credit

\* The greatest common divisor of a > 0 and b >= 0.
RECURSIVE Gcd(_, _)
Gcd(a, b) == IF b = 0 THEN a ELSE Gcd(b, a % b)

\* The vector num / den in lowest terms (den > 0, num >= 0 entrywise or not).
RECURSIVE GcdAll(_, _)
GcdAll(num, g) ==
    IF num = <<>> THEN g
    ELSE GcdAll(Tail(num), Gcd(g, IF Head(num) < 0 THEN -Head(num) ELSE Head(num)))

Reduced(num, den) ==
    LET g == GcdAll(num, den)
    IN  [num |-> [i \in 1 .. Len(num) |-> num[i] \div g], den |-> den \div g]

\* The loop of fairlyAllocateCredit when every call of rand() is an
\* independent draw, uniform on [0, 1): the expected value of the array
\* returned, as the vector num / den.  r < p1 has probability p1 (p1 is
\* from 0 to 1 wherever the code computes it), so the expectation of a pair
\* that is not skipped is p1 times that of the rest of the loop after the
\* swap plus (1 - p1) times that of the rest of the loop without it.
RECURSIVE ExpectedLoop(_, _, _, _)
ExpectedLoop(roundedCredit, sumCredit, idx1, n) ==
    IF ~(n < Len(roundedCredit))
    THEN [num |-> [i \in 1 .. Len(roundedCredit) |->
                      MathRound(roundedCredit[i], sumCredit)],
          den |-> 1]
    ELSE
    LET frac1 == roundedCredit[idx1 + 1] % sumCredit
        frac2 == roundedCredit[n + 1] % sumCredit
        incrs == Increments(frac1, frac2, sumCredit)
        p     == p1(incrs[1], incrs[2])
        a     == IF p.den > 0 THEN p.num ELSE -p.num
        b     == IF p.den > 0 THEN p.den ELSE -p.den
        swapped == PairStep(roundedCredit, sumCredit, idx1, n, TRUE)
        stayed  == PairStep(roundedCredit, sumCredit, idx1, n, FALSE)
    IN  IF BothWhole(frac1, frac2)
        THEN ExpectedLoop(roundedCredit, sumCredit, idx1, n + 1)
        ELSE LET e1 == ExpectedLoop(swapped.credit, sumCredit, swapped.idx1, n + 1)
                  e2 == ExpectedLoop(stayed.credit, sumCredit, stayed.idx1, n + 1)
             IN  Reduced([i \in 1 .. Len(roundedCredit) |->
                            a * e1.num[i] * e2.den + (b - a) * e2.num[i] * e1.den],
                         b * e1.den * e2.den)

\* The expected value of fairlyAllocateCredit(credit, value, rand).
ExpectedCredit(credit, value) ==
    ExpectedLoop([i \in 1 .. Len(credit) |-> value * credit[i]], SumSeq(credit), 0, 1)

(***************************************************************************)
(* Privacy budget ledger.                                                  *)
(***************************************************************************)
\* Mutant: the lookup finds no entry.
FindEntry_NotFound(store, site, epoch) == 0

\* Array.prototype.find on the budget store: the position of the first
\* entry for (site, epoch), 0 when there is none.
FindEntry(store, site, epoch) ==
    LET hits == {i \in 1 .. Len(store) : store[i].epoch = epoch /\ store[i].site = site}
    IN  IF hits = {} THEN 0 ELSE CHOOSE i \in hits : \A j \in hits : i <= j

\* deductionFp > MAX_CONVERSION_EPSILON, with deductionFp * 1000000 = num / den.
ExceedsMaxEpsilon(num, den) ==
    \/ num \div (den * 1000000) > MAX_CONVERSION_EPSILON
    \/ /\ num \div (den * 1000000) = MAX_CONVERSION_EPSILON
       /\ num % (den * 1000000) > 0

\* Mutant: an entry is created with the configured budget alone.
NewEntryValue_NoSlack == privacyBudgetMicroEpsilons

\* The value #deductPrivacyBudget gives an entry it creates.
NewEntryValue == privacyBudgetMicroEpsilons + 1000

\* Mutant: the deduction is added to the entry.
Deduct_Adds(value, deduction) == value + deduction

\* entry.value -= deduction.
Deduct(value, deduction) == value - deduction

\* Mutant: a failed deduction keeps the remainder.
FailedEntryValue_Kept(value) == value

\* entry.value = 0 before `return false`.
FailedEntryValue(value) == 0

\* Mutant: the sensitivity is the worst case whatever l1Norm is.
Sensitivity_WorstCase(l1Norm, value) == 2 * value

\* l1Norm ?? 2 * value (0 is not nullish).
Sensitivity(l1Norm, value) == IF l1Norm # Null THEN l1Norm ELSE 2 * value

\* #deductPrivacyBudget: the store after the call and the value returned
\* (ok); and, for the record of the call, whether the entry was created, the
\* value it held before the deduction and the deduction computed.
\* epsilon is in micro-epsilons; l1Norm is Null for the worst case.
deductPrivacyBudget(store, site, epoch, epsilon, value, maxValue, l1Norm) ==
    LET found  == FindEntry(store, site, epoch)
        pushed == IF found = 0
                  THEN Append(store, [site |-> site, epoch |-> epoch,
                                      value |-> NewEntryValue])
                  ELSE store
        at     == IF found = 0 THEN Len(pushed) ELSE found
        sensitivity == Sensitivity(l1Norm, value)
        \* deductionFp * 1000000 = sensitivity / ((2 * maxValue) / epsilon) * 1000000
        num    == sensitivity * epsilon
        den    == 2 * maxValue
        deduction == (num + den - 1) \div den
        seen   == [created |-> found = 0, before |-> pushed[at].value,
                   deduction |-> deduction]
    IN  IF num < 0 \/ ExceedsMaxEpsilon(num, den)
        THEN seen @@ [store |-> [pushed EXCEPT ![at].value = FailedEntryValue(@)],
                      ok |-> FALSE]
        ELSE IF deduction > pushed[at].value
        THEN seen @@ [store |-> [pushed EXCEPT ![at].value = FailedEntryValue(@)],
                      ok |-> FALSE]
        ELSE seen @@ [store |-> [pushed EXCEPT ![at].value = Deduct(@, deduction)],
                      ok |-> TRUE]

(***************************************************************************)
(* Last-N-touch attribution.                                               *)
(***************************************************************************)
\* Mutant: the comparator looks at the priority only.
SortsBefore_PriorityOnly(a, b) == a.priority > b.priority

\* The comparator of toSorted: a sorts before b.
SortsBefore(a, b) ==
    \/ a.priority > b.priority
    \/ a.priority = b.priority /\ a.timestamp > b.timestamp

\* toSorted is stable: x, which follows every element of `sorted` in the
\* input, goes after the elements that do not sort after it.
RECURSIVE InsertSorted(_, _)
InsertSorted(sorted, x) ==
    IF sorted = <<>> THEN <<x>>
    ELSE IF SortsBefore(x, Head(sorted)) THEN <<x>> \o sorted
    ELSE <<Head(sorted)>> \o InsertSorted(Tail(sorted), x)

RECURSIVE toSorted(_)
toSorted(s) ==
    IF s = <<>> THEN <<>>
    ELSE InsertSorted(toSorted(SubSeq(s, 1, Len(s) - 1)), s[Len(s)])

\* Mutant: an index past the end of the histogram is credited to its last
\* slot.
FillSlots_Clamps(lastNImpressions, normalizedCredit, histogramSize) ==
    [h \in 1 .. histogramSize |->
        SumSeq([i \in 1 .. Len(lastNImpressions) |->
                  IF Min(lastNImpressions[i].histogramIndex, histogramSize - 1) = h - 1
                  THEN normalizedCredit[i] ELSE 0])]

\* The histogram loop of #fillHistogramWithLastNTouchAttribution.
FillSlots(lastNImpressions, normalizedCredit, histogramSize) ==
    [h \in 1 .. histogramSize |->
        SumSeq([i \in 1 .. Len(lastNImpressions) |->
                  IF lastNImpressions[i].histogramIndex = h - 1
                  THEN normalizedCredit[i] ELSE 0])]

\* #fillHistogramWithLastNTouchAttribution: the error thrown ("ok" for
\* none; it throws for an empty pool) and, for a pool that is not empty,
\* the histogram, the impressions kept and the credit allocated to each.
fillHistogramWithLastNTouchAttribution(matchedImpressions, histogramSize, value, credit, rs) ==
    LET sortedImpressions == toSorted(matchedImpressions)
        N == Min(Len(credit), Len(sortedImpressions))
        lastNImpressions == SubSeq(sortedImpressions, 1, N)
        normalizedCredit == fairlyAllocateCredit(SubSeq(credit, 1, N), value, rs)
    IN  [outcome   |-> IF Len(matchedImpressions) = 0 THEN "InvalidStateError" ELSE "ok",
         histogram |-> FillSlots(lastNImpressions, normalizedCredit, histogramSize),
         lastN     |-> lastNImpressions,
         credit    |-> normalizedCredit]

(***************************************************************************)
(* Input validation.                                                       *)
(***************************************************************************)
AggregationServices == {"https://agg.example/"}

SeqRange(s) == {s[i] : i \in 1 .. Len(s)}

\* Whether parseSite returns (psl accepts the input) or throws SyntaxError.
\* The inputs of the model are registrable sites already, or invalid.
SiteParses(input) == input \in Sites

\* parseSite on an input it accepts.
parseSite(input) == input

\* Whether parseSites returns, and the set it then returns.
SitesParse(input) == \A x \in SeqRange(input) : SiteParses(x)

parseSites(input) == {parseSite(x) : x \in SeqRange(input)}


\* Number.isInteger(x / unit), for a number given in units of 1 / unit.
IsIntegerNumber(x, unit) == x % unit = 0

\* The checks of #validateConversionOptions on value and maxValue, both
\* given in units of 1 / unit: the name of the error thrown, "ok" for none.
\* The second check tests Number.isInteger(value), as the code does.
validateValueAndMaxValue(value, maxValue, unit) ==
    IF value <= 0 \/ ~IsIntegerNumber(value, unit) THEN "RangeError"
    ELSE IF maxValue <= 0 \/ ~IsIntegerNumber(value, unit) THEN "RangeError"
    ELSE IF value > maxValue THEN "RangeError"
    ELSE "ok"

\* #validateConversionOptions: the name of the error thrown, "ok" for none.
\* The numbers of the options are integers here (unit 1), so the
\* Number.isInteger and Number.isFinite tests pass.
validateConversionOptions(o) ==
    IF o.aggregationService \notin AggregationServices THEN "ReferenceError"
    ELSE IF o.epsilon <= 0 \/ ExceedsMaxEpsilon(o.epsilon, 1) THEN "RangeError"
    ELSE IF o.histogramSize < 1 \/ o.histogramSize > maxHistogramSize
    THEN "RangeError"
    ELSE IF validateValueAndMaxValue(o.value, o.maxValue, 1) # "ok" THEN "RangeError"
    ELSE IF Len(o.credit) = 0 \/ Len(o.credit) > maxCreditSize THEN "RangeError"
    ELSE IF \E i \in 1 .. Len(o.credit) : o.credit[i] <= 0 THEN "RangeError"
    ELSE IF o.lookbackDays <= 0 THEN "RangeError"
    ELSE IF \E v \in SeqRange(o.matchValues) : v < 0 THEN "RangeError"
    ELSE IF ~SitesParse(o.impressionSites) THEN "SyntaxError"
    ELSE IF ~SitesParse(o.impressionCallers) THEN "SyntaxError"
    ELSE "ok"

\* The ValidatedConversionOptions #validateConversionOptions returns.
ValidatedConversionOptions(o) ==
    [epsilon           |-> o.epsilon,
     histogramSize     |-> o.histogramSize,
     lookback          |-> days(Min(o.lookbackDays, maxLookbackDays)),
     matchValues       |-> SeqRange(o.matchValues),
     impressionSites   |-> parseSites(o.impressionSites),
     impressionCallers |-> parseSites(o.impressionCallers),
     credit            |-> o.credit,
     value             |-> o.value,
     maxValue          |-> o.maxValue]

(***************************************************************************)
(* Attribution.                                                            *)
(***************************************************************************)
\* Mutant: the epoch's matches are added whatever the deduction returned.
MergeMatches_Always(pool, matching, budgetOk) == pool \o matching

\* The pool of the multi-epoch loop after an epoch's deduction: the epoch's
\* matches are added if budgetOk.
MergeMatches(pool, matching, budgetOk) ==
    IF budgetOk THEN pool \o matching ELSE pool

\* The record of one call of #deductPrivacyBudget.
Attempt(epoch, l1Norm, deducted) ==
    [epoch |-> epoch, l1Norm |-> l1Norm, ok |-> deducted.ok,
     created |-> deducted.created, before |-> deducted.before,
     deduction |-> deducted.deduction]

\* Mutant: the loop deducts for every epoch, matched or not.
EpochHasMatches_Always(matching) == TRUE

\* impressions.size > 0: the epoch produced matches.
EpochHasMatches(matching) == Len(matching) > 0

\* The multi-epoch loop of #doAttributionAndFillHistogram from `epoch` on:
\* the budget store, the pool (in insertion order) and the deductions made.
RECURSIVE EpochSweep(_, _, _, _, _, _, _, _, _, _)
EpochSweep(imps, store, budget, topLevelSite, intermediarySite, epoch, currentEpoch, t, options, acc) ==
    IF ~(epoch <= currentEpoch)
    THEN [budget |-> budget, pool |-> acc.pool, attempts |-> acc.attempts]
    ELSE
    LET matching == commonMatchingLogic(imps, store, topLevelSite, intermediarySite,
                                        epoch, t, options)
        deducted == deductPrivacyBudget(budget, topLevelSite, epoch, options.epsilon,
                                        options.value, options.maxValue, Null)
    IN  IF EpochHasMatches(matching)
        THEN EpochSweep(imps, store, deducted.store, topLevelSite, intermediarySite,
                        epoch + 1, currentEpoch, t, options,
                        [pool |-> MergeMatches(acc.pool, matching, deducted.ok),
                         attempts |-> Append(acc.attempts,
                                             Attempt(epoch, Null, deducted))])
        ELSE EpochSweep(imps, store, budget, topLevelSite, intermediarySite,
                        epoch + 1, currentEpoch, t, options, acc)

\* Mutant: the attribution goes on with an empty pool.
ReturnsAllZero_Never(matchedImpressions) == FALSE

\* matchedImpressions.size === 0: #doAttributionAndFillHistogram returns
\* allZeroHistogram without calling #fillHistogramWithLastNTouchAttribution.
ReturnsAllZero(matchedImpressions) == Len(matchedImpressions) = 0

\* #doAttributionAndFillHistogram with the rng outputs p (for the epoch
\* origin, when one is drawn) and rs (for the credit allocation): the stores
\* after the call, the error thrown ("ok" for none), the histogram returned,
\* and what the call did on the way: the regime, the deductions, and the
\* impressions whose credit is in the histogram returned (lastN) with the
\* credit allocated to each, and the pool they were taken from (matched).
doAttributionAndFillHistogram(imps, starts, budget, clear, topLevelSite, intermediarySite, t, options, p, rs) ==
    LET store         == EpochStoreAfter(starts, topLevelSite, t, p)
        currentEpoch  == getCurrentEpoch(store, topLevelSite, t)
        startEpoch    == getStartEpoch(store, clear, topLevelSite, t)
        earliestEpoch == getCurrentEpoch(store, topLevelSite, t - options.lookback)
        singleEpoch   == currentEpoch = earliestEpoch
        sweep == EpochSweep(imps, store, budget, topLevelSite, intermediarySite,
                            startEpoch, currentEpoch, t, options,
                            [pool |-> <<>>, attempts |-> <<>>])
        matchedImpressions ==
            IF singleEpoch
            THEN commonMatchingLogic(imps, store, topLevelSite, intermediarySite,
                                     currentEpoch, t, options)
            ELSE sweep.pool
        budget1   == IF singleEpoch THEN budget ELSE sweep.budget
        attempts1 == IF singleEpoch THEN <<>> ELSE sweep.attempts
        filled == fillHistogramWithLastNTouchAttribution(
                      matchedImpressions, options.histogramSize, options.value,
                      options.credit, rs)
        l1Norm == SumSeq(filled.histogram)
        deducted == deductPrivacyBudget(budget1, topLevelSite, currentEpoch,
                                        options.epsilon, options.value,
                                        options.maxValue, l1Norm)
        base == [epochStartStore |-> store, privacyBudgetStore |-> budget1,
                 outcome |-> "ok", histogram |-> allZeroHistogram(options.histogramSize),
                 singleEpoch |-> singleEpoch, currentEpoch |-> currentEpoch,
                 startEpoch |-> startEpoch, attempts |-> attempts1,
                 lastN |-> <<>>, credit |-> <<>>, matched |-> matchedImpressions]
        kept == [base EXCEPT !.lastN = filled.lastN, !.credit = filled.credit]
    IN  IF ReturnsAllZero(matchedImpressions) THEN base
        ELSE IF filled.outcome # "ok"
        THEN [base EXCEPT !.outcome = filled.outcome, !.histogram = <<>>]
        ELSE IF ~singleEpoch THEN [kept EXCEPT !.histogram = filled.histogram]
        ELSE IF l1Norm > options.value
        THEN [kept EXCEPT !.outcome = "InvalidStateError", !.histogram = <<>>]
        ELSE [kept EXCEPT
                !.privacyBudgetStore = deducted.store,
                !.attempts = <<Attempt(currentEpoch, l1Norm, deducted)>>,
                !.lastN = IF deducted.ok THEN filled.lastN ELSE <<>>,
                !.credit = IF deducted.ok THEN filled.credit ELSE <<>>,
                !.histogram = IF deducted.ok THEN filled.histogram
                              ELSE allZeroHistogram(options.histogramSize)]

\* The numbers of the impression options are given in units of
\* 1 / o.unit; they are integers (unit 1) when the options have no unit.
ImpressionUnit(o) == IF "unit" \in DOMAIN o THEN o.unit ELSE 1

\* Mutant: the histogramIndex is not checked.
validateImpression_NoIndexCheck(impressionSite, intermediarySite, o) ==
    IF ~SiteParses(impressionSite) THEN "SyntaxError"
    ELSE IF intermediarySite # Undefined /\ ~SiteParses(intermediarySite)
    THEN "SyntaxError"
    ELSE IF o.lifetimeDays <= 0 \/ ~IsIntegerNumber(o.lifetimeDays, ImpressionUnit(o))
    THEN "RangeError"
    ELSE IF Len(o.conversionSites) > maxConversionSitesPerImpression THEN "RangeError"
    ELSE IF ~SitesParse(o.conversionSites) THEN "SyntaxError"
    ELSE IF Len(o.conversionCallers) > maxConversionCallersPerImpression
    THEN "RangeError"
    ELSE IF ~SitesParse(o.conversionCallers) THEN "SyntaxError"
    ELSE IF o.matchValue < 0 \/ ~IsIntegerNumber(o.matchValue, ImpressionUnit(o))
    THEN "RangeError"
    ELSE IF ~IsIntegerNumber(o.priority, ImpressionUnit(o)) THEN "RangeError"
    ELSE "ok"

\* saveImpression's checks: the name of the error thrown, "ok" for none.
validateImpression(impressionSite, intermediarySite, o) ==
    IF ~SiteParses(impressionSite) THEN "SyntaxError"
    ELSE IF intermediarySite # Undefined /\ ~SiteParses(intermediarySite)
    THEN "SyntaxError"
    ELSE IF \/ o.histogramIndex < 0
            \/ o.histogramIndex >= maxHistogramSize * ImpressionUnit(o)
            \/ ~IsIntegerNumber(o.histogramIndex, ImpressionUnit(o))
    THEN "RangeError"
    ELSE IF o.lifetimeDays <= 0 \/ ~IsIntegerNumber(o.lifetimeDays, ImpressionUnit(o))
    THEN "RangeError"
    ELSE IF Len(o.conversionSites) > maxConversionSitesPerImpression THEN "RangeError"
    ELSE IF ~SitesParse(o.conversionSites) THEN "SyntaxError"
    ELSE IF Len(o.conversionCallers) > maxConversionCallersPerImpression
    THEN "RangeError"
    ELSE IF ~SitesParse(o.conversionCallers) THEN "SyntaxError"
    ELSE IF o.matchValue < 0 \/ ~IsIntegerNumber(o.matchValue, ImpressionUnit(o))
    THEN "RangeError"
    ELSE IF ~IsIntegerNumber(o.priority, ImpressionUnit(o)) THEN "RangeError"
    ELSE "ok"

\* measureConversion's checks: the name of the error thrown, "ok" for none.
validateConversion(topLevelSite, intermediarySite, o) ==
    IF ~SiteParses(topLevelSite) THEN "SyntaxError"
    ELSE IF intermediarySite # Undefined /\ ~SiteParses(intermediarySite)
    THEN "SyntaxError"
    ELSE validateConversionOptions(o)

\* Mutant: saveImpression stores the impression whatever `enabled` is.
saveImpressionStores_Always(en) == TRUE

\* saveImpression, after its checks: whether it goes on to store the
\* impression (it returns early when the backend is disabled).
saveImpressionStores(en) == en

\* Mutant: measureConversion runs the attribution whatever `enabled` is.
measureConversionAttributes_Always(en) == TRUE

\* measureConversion, after its checks: whether the report comes from
\* #doAttributionAndFillHistogram (it is allZeroHistogram otherwise).
measureConversionAttributes(en) == en

(***************************************************************************)
(* The header parser (http.ts).  A header is given as the Dictionary that  *)
(* parseDictionary returns for it (or as text that is no dictionary): each *)
(* key has a bare item or an inner list, or is absent.  A number is        *)
(* hi * 65536 + lo + tenths / 10 with 0 <= lo < 65536 and 0 <= tenths < 10 *)
(* (hi < 0 for a negative number), so that the 32-bit bounds are exact.    *)
(***************************************************************************)
Absent == [type |-> "absent", hi |-> 0, lo |-> 0, tenths |-> 0, text |-> "", items |-> <<>>]

NumberItem(hi, lo, tenths) == [Absent EXCEPT !.type = "number", !.hi = hi, !.lo = lo, !.tenths = tenths]

StringItem(text) == [Absent EXCEPT !.type = "string", !.text = text]

TokenItem(text) == [Absent EXCEPT !.type = "token", !.text = text]

InnerList(items) == [Absent EXCEPT !.type = "list", !.items = items]

\* MAX_UINT32 = 65535 * 65536 + 65535.
MAX_UINT32_HI == 65535

BaseUrl == "https://base.example/abc/"

\* new URL(text, baseUrl).protocol, "TypeError" when the constructor throws.
\* The texts of the model: two absolute URLs, a relative one, and one that
\* is no URL.
UrlProtocol(text, baseUrl) ==
    IF text = "https://r.example" THEN "https:"
    ELSE IF text = "http://r.example" THEN "http:"
    ELSE IF text = "xyz" THEN "https:"
    ELSE "TypeError"

\* get: the item of the key (its parameters dropped), Absent for undefined.
get(dict, key) == dict[key]

IsInteger(item) == item.type = "number" /\ item.tenths = 0

IsZero(item) == item.hi = 0 /\ item.lo = 0 /\ item.tenths = 0

\* getInteger: the name of the error thrown, "ok" when it returns (the
\* item, or undefined for an absent key).
getInteger(dict, key) ==
    IF get(dict, key).type = "absent" THEN "ok"
    ELSE IF ~IsInteger(get(dict, key)) THEN "TypeError"
    ELSE "ok"

get32BitUnsignedInteger(dict, key) ==
    IF getInteger(dict, key) # "ok" THEN getInteger(dict, key)
    ELSE IF get(dict, key).type = "absent" THEN "ok"
    ELSE IF get(dict, key).hi < 0 \/ get(dict, key).hi > MAX_UINT32_HI THEN "RangeError"
    ELSE "ok"

getPositive32BitUnsignedInteger(dict, key) ==
    IF get32BitUnsignedInteger(dict, key) # "ok" THEN get32BitUnsignedInteger(dict, key)
    ELSE IF get(dict, key).type = "absent" THEN "ok"
    ELSE IF IsZero(get(dict, key)) THEN "RangeError"
    ELSE "ok"

validate32BitUnsignedInteger(value) ==
    IF ~IsInteger(value) \/ value.hi < 0 \/ value.hi > MAX_UINT32_HI
    THEN "RangeError" ELSE "ok"

validatePositiveInteger(value) ==
    IF ~IsInteger(value) \/ value.hi < 0 \/ IsZero(value)
    THEN "RangeError" ELSE "ok"

\* The parseItem callbacks handed to parseInnerList, by the list they
\* parse: the name of the error thrown for an item, "ok" when it returns.
parseItem(list, value) ==
    IF list = "sites" THEN (IF value.type # "string" THEN "TypeError" ELSE "ok")
    ELSE IF list = "match-values" THEN validate32BitUnsignedInteger(value)
    ELSE (IF value.type # "number" THEN "RangeError" ELSE "ok")

\* parseInnerList: the name of the error thrown, "ok" when it returns; the
\* items are parsed in order, so the error is that of the first bad item.
parseInnerList(dict, key, list) ==
    LET values == get(dict, key)
        bad == {i \in 1 .. Len(values.items) : parseItem(list, values.items[i]) # "ok"}
    IN  IF values.type = "absent" THEN "ok"
        ELSE IF values.type # "list" THEN "TypeError"
        ELSE IF bad = {} THEN "ok"
        ELSE parseItem(list, values.items[CHOOSE i \in bad : \A j \in bad : i <= j])

parseInnerListOfSites(dict, key) == parseInnerList(dict, key, "sites")

\* The first of the errors in a list of checks, "ok" when there is none.
RECURSIVE FirstError(_)
FirstError(checks) ==
    IF checks = <<>> THEN "ok"
    ELSE IF Head(checks) # "ok" THEN Head(checks)
    ELSE FirstError(Tail(checks))

\* const histogramSize = getPositive32BitUnsignedInteger(dict,
\* "histogram-size"): the name of the error thrown, "ok" for none.
histogramSizeCheck(dict) == getPositive32BitUnsignedInteger(dict, "histogram-size")

\* parseMeasureConversionHeader: the name of the error thrown, "ok" when it
\* returns.  input.wellFormed says whether parseDictionary returns.
parseMeasureConversionHeaderOutcome(input, baseUrl) ==
    LET dict == input.dict
        aggregationService == get(dict, "aggregation-service")
        reportUrlString == get(dict, "report-url")
        epsilon == get(dict, "epsilon")
        lookbackDays == get(dict, "lookback-days")
    IN  IF ~input.wellFormed THEN "ParseError"
        ELSE FirstError(<<
            IF aggregationService.type = "absent" THEN "TypeError" ELSE "ok",
            IF aggregationService.type # "string" THEN "TypeError" ELSE "ok",
            histogramSizeCheck(dict),
            IF reportUrlString.type = "absent" THEN "TypeError" ELSE "ok",
            IF reportUrlString.type # "string" THEN "TypeError" ELSE "ok",
            IF UrlProtocol(reportUrlString.text, baseUrl) # "https:"
            THEN "TypeError" ELSE "ok",
            IF epsilon.type \notin {"absent", "number"} THEN "TypeError" ELSE "ok",
            IF lookbackDays.type # "absent"
            THEN validatePositiveInteger(lookbackDays) ELSE "ok",
            parseInnerList(dict, "match-values", "match-values"),
            parseInnerListOfSites(dict, "impression-sites"),
            parseInnerListOfSites(dict, "impression-callers"),
            parseInnerList(dict, "credit", "credit"),
            getPositive32BitUnsignedInteger(dict, "value"),
            getPositive32BitUnsignedInteger(dict, "max-value")>>)

\* parseMeasureConversionHeader: the outcome and, when it returns, the
\* options and the report URL's protocol (an absent key gives undefined).
parseMeasureConversionHeader(input, baseUrl) ==
    LET outcome == parseMeasureConversionHeaderOutcome(input, baseUrl)
        dict == input.dict
    IN  IF outcome # "ok" THEN [outcome |-> outcome]
        ELSE [outcome |-> "ok",
              opts |-> [aggregationService |-> get(dict, "aggregation-service").text,
                        histogramSize |-> get(dict, "histogram-size"),
                        epsilon |-> get(dict, "epsilon"),
                        lookbackDays |-> get(dict, "lookback-days"),
                        matchValues |-> get(dict, "match-values"),
                        impressionSites |-> get(dict, "impression-sites"),
                        impressionCallers |-> get(dict, "impression-callers"),
                        credit |-> get(dict, "credit"),
                        value |-> get(dict, "value"),
                        maxValue |-> get(dict, "max-value")],
              reportUrl |-> UrlProtocol(get(dict, "report-url").text, baseUrl)]

(***************************************************************************)
(* The public operations.                                                  *)
(***************************************************************************)
Init ==
    /\ enabled = TRUE
    /\ impressions = <<>>
    /\ epochStartStore = [s \in Sites |-> Null]
    /\ privacyBudgetStore = <<>>
    /\ lastBrowsingHistoryClear = Null
    /\ now = 0
    /\ last = [op |-> "constructor"]
    /\ steps = 0

\* Mutant: the lifetime is not capped.
CappedLifetimeDays_Uncapped(lifetimeDays) == lifetimeDays

\* lifetimeDays = Math.min(lifetimeDays, this.#delegate.maxLookbackDays).
CappedLifetimeDays(lifetimeDays) == Min(lifetimeDays, maxLookbackDays)

\* The numbers stored are those of the options (integers, once the checks
\* have passed).
saveImpression(impressionSite, intermediarySite, o) ==
    LET outcome == validateImpression(impressionSite, intermediarySite, o)
        unit == ImpressionUnit(o)
    IN  /\ impressions' =
              IF outcome = "ok" /\ saveImpressionStores(enabled)
              THEN Append(impressions,
                     [matchValue        |-> o.matchValue \div unit,
                      impressionSite    |-> parseSite(impressionSite),
                      intermediarySite  |-> intermediarySite,
                      conversionSites   |-> parseSites(o.conversionSites),
                      conversionCallers |-> parseSites(o.conversionCallers),
                      timestamp         |-> now,
                      lifetime          |-> days(CappedLifetimeDays(o.lifetimeDays \div unit)),
                      histogramIndex    |-> o.histogramIndex \div unit,
                      priority          |-> o.priority \div unit])
              ELSE impressions
        /\ last' = [op |-> "saveImpression", outcome |-> outcome,
                    impressionSite |-> impressionSite,
                    intermediarySite |-> intermediarySite, options |-> o]
        /\ UNCHANGED <<enabled, epochStartStore, privacyBudgetStore,
                       lastBrowsingHistoryClear, now>>

measureConversion(topLevelSite, intermediarySite, o, p, rs) ==
    LET outcome == validateConversion(topLevelSite, intermediarySite, o)
        call == [op |-> "measureConversion", topLevelSite |-> topLevelSite,
                 intermediarySite |-> intermediarySite, options |-> o,
                 enabled |-> enabled, random |-> <<p>> \o rs,
                 outcome |-> outcome, histogram |-> <<>>,
                 singleEpoch |-> FALSE, currentEpoch |-> 0, startEpoch |-> 0,
                 attempts |-> <<>>, lastN |-> <<>>, credit |-> <<>>,
                 matched |-> <<>>]
    IN  IF outcome # "ok"
        THEN /\ last' = call
             /\ UNCHANGED <<enabled, impressions, epochStartStore, privacyBudgetStore,
                            lastBrowsingHistoryClear, now>>
        ELSE IF ~measureConversionAttributes(enabled)
        THEN /\ last' = [call EXCEPT !.histogram = allZeroHistogram(
                                         ValidatedConversionOptions(o).histogramSize)]
             /\ UNCHANGED <<enabled, impressions, epochStartStore, privacyBudgetStore,
                            lastBrowsingHistoryClear, now>>
        ELSE \E done \in {doAttributionAndFillHistogram(
                             impressions, epochStartStore, privacyBudgetStore,
                             lastBrowsingHistoryClear, parseSite(topLevelSite),
                             intermediarySite, now, ValidatedConversionOptions(o),
                             p, rs)} :
             /\ epochStartStore' = done.epochStartStore
             /\ privacyBudgetStore' = done.privacyBudgetStore
             /\ last' = [call EXCEPT
                           !.outcome = done.outcome, !.histogram = done.histogram,
                           !.singleEpoch = done.singleEpoch,
                           !.currentEpoch = done.currentEpoch,
                           !.startEpoch = done.startEpoch,
                           !.attempts = done.attempts,
                           !.lastN = done.lastN, !.credit = done.credit,
                           !.matched = done.matched]
             /\ UNCHANGED <<enabled, impressions, lastBrowsingHistoryClear, now>>

\* Mutant: an impression of the site itself is not removed.
shouldRemoveImpression_NotOwn(i, site) ==
    \/ i.intermediarySite = site
    \/ site \in i.conversionSites /\ i.conversionSites \ {site} = {}
    \/ site \in i.conversionCallers /\ i.conversionCallers \ {site} = {}

\* Mutant: an impression is kept when the site was its only conversion site
\* or its only conversion caller.
shouldRemoveImpression_KeepsEmptied(i, site) ==
    \/ i.intermediarySite = Undefined /\ i.impressionSite = site
    \/ i.intermediarySite = site

\* shouldRemoveImpression of clearImpressionsForSite: the value returned.
shouldRemoveImpression(i, site) ==
    \/ i.intermediarySite = Undefined /\ i.impressionSite = site
    \/ i.intermediarySite = site
    \/ site \in i.conversionSites /\ i.conversionSites \ {site} = {}
    \/ site \in i.conversionCallers /\ i.conversionCallers \ {site} = {}

\* Mutant: the site is deleted from conversionSites only.
Narrowed_SitesOnly(i, site) ==
    [i EXCEPT !.conversionSites = @ \ {site}]

\* shouldRemoveImpression of clearImpressionsForSite: the impression after a
\* call that returns false (the site is deleted from both sets).
Narrowed(i, site) ==
    [i EXCEPT !.conversionSites = @ \ {site}, !.conversionCallers = @ \ {site}]

\* Whether the last call was a saveImpression that stored an impression of
\* `site` with no intermediary and no conversion sites.
SavedPlainImpressionOf(site) ==
    /\ last.op = "saveImpression" /\ last.outcome = "ok" /\ enabled
    /\ last.impressionSite = site /\ last.intermediarySite = Undefined
    /\ last.options.conversionSites = <<>>

\* The record of the call says how many impressions it removed and whether
\* the call before it was a saveImpression as above.
clearImpressionsForSite(site) ==
    LET Keep(i) == ~shouldRemoveImpression(i, site)
        kept == SelectSeq(impressions, Keep)
    IN  /\ impressions' = [k \in 1 .. Len(kept) |-> Narrowed(kept[k], site)]
        /\ last' = [op |-> "clearImpressionsForSite", site |-> site,
                    removed |-> Len(impressions) - Len(kept),
                    afterSave |-> SavedPlainImpressionOf(site)]
        /\ UNCHANGED <<enabled, epochStartStore, privacyBudgetStore,
                       lastBrowsingHistoryClear, now>>

\* Mutant: the inner loop stops short of the current epoch.
RECURSIVE ZeroEpochs_SkipsCurrent(_, _, _, _)
ZeroEpochs_SkipsCurrent(budget, site, epoch, currentEpoch) ==
    IF ~(epoch < currentEpoch) THEN budget
    ELSE LET found == FindEntry(budget, site, epoch)
         IN  ZeroEpochs_SkipsCurrent(
                 IF found = 0
                 THEN Append(budget, [site |-> site, epoch |-> epoch, value |-> 0])
                 ELSE [budget EXCEPT ![found].value = 0],
                 site, epoch + 1, currentEpoch)

\* Mutant: the entry pushed for a cell without entry holds the initial
\* budget.
ZeroedEntry_Full(site, epoch) ==
    [site |-> site, epoch |-> epoch, value |-> privacyBudgetMicroEpsilons + 1000]

\* The entry #zeroBudgetForSites pushes for a cell without entry.
ZeroedEntry(site, epoch) == [site |-> site, epoch |-> epoch, value |-> 0]

\* The inner loop of #zeroBudgetForSites from `epoch` on.
RECURSIVE ZeroEpochs(_, _, _, _)
ZeroEpochs(budget, site, epoch, currentEpoch) ==
    IF ~(epoch <= currentEpoch) THEN budget
    ELSE LET found == FindEntry(budget, site, epoch)
         IN  ZeroEpochs(IF found = 0
                        THEN Append(budget, ZeroedEntry(site, epoch))
                        ELSE [budget EXCEPT ![found].value = 0],
                        site, epoch + 1, currentEpoch)

\* The outer loop of #zeroBudgetForSites over the sites left, in the
\* insertion order of the parsed set; ps[site] is the rng output drawn when
\* the site has no epoch origin.
RECURSIVE ZeroSites(_, _, _, _, _, _)
ZeroSites(starts, budget, clear, sites, t, ps) ==
    IF sites = <<>> THEN [epochStartStore |-> starts, privacyBudgetStore |-> budget]
    ELSE LET site  == Head(sites)
             store == EpochStoreAfter(starts, site, t - days(maxLookbackDays), ps[site])
             startEpoch   == getStartEpoch(store, clear, site, t)
             currentEpoch == getCurrentEpoch(store, site, t)
         IN  ZeroSites(store, ZeroEpochs(budget, site, startEpoch, currentEpoch),
                       clear, Tail(sites), t, ps)

\* The elements of a sequence in order of first occurrence (the insertion
\* order of the Set parseSites builds).
RECURSIVE Distinct(_)
Distinct(s) ==
    IF s = <<>> THEN <<>>
    ELSE LET front == Distinct(SubSeq(s, 1, Len(s) - 1))
         IN  IF s[Len(s)] \in SeqRange(front) THEN front ELSE Append(front, s[Len(s)])

zeroBudgetForSites(starts, budget, clear, sites, t, ps) ==
    ZeroSites(starts, budget, clear, Distinct(sites), t, ps)

\* Mutant: an empty list of sites is accepted when nothing is forgotten.
clearStateOutcome_AllowsEmpty(sites, forgetVisits) ==
    IF ~SitesParse(sites) THEN "SyntaxError" ELSE "ok"

\* clearState: the name of the error thrown, "ok" for none (SyntaxError by
\* parseSites, RangeError by #zeroBudgetForSites).
clearStateOutcome(sites, forgetVisits) ==
    IF ~SitesParse(sites) THEN "SyntaxError"
    ELSE IF ~forgetVisits /\ parseSites(sites) = {} THEN "RangeError"
    ELSE "ok"

\* Mutant: forgetting every site keeps the epoch origins.
forgetAllSites_KeepsOrigins(imps, budget, starts) ==
    [impressions |-> <<>>, privacyBudgetStore |-> <<>>, epochStartStore |-> starts]

\* clearState(sites, true) with no site: the three stores after the call.
forgetAllSites(imps, budget, starts) ==
    [impressions |-> <<>>, privacyBudgetStore |-> <<>>,
     epochStartStore |-> [s \in Sites |-> Null]]

\* Mutant: an impression is also dropped when a listed site is its
\* intermediary or one of its conversion sites.
forgetSites_ByAnyRole(imps, budget, starts, parsedSites) ==
    LET KeepImpression(e) ==
            /\ e.impressionSite \notin parsedSites
            /\ e.intermediarySite \notin parsedSites
            /\ e.conversionSites \cap parsedSites = {}
        KeepEntry(e) == e.site \notin parsedSites
    IN  [impressions |-> SelectSeq(imps, KeepImpression),
         privacyBudgetStore |-> SelectSeq(budget, KeepEntry),
         epochStartStore |-> [s \in Sites |-> IF s \in parsedSites THEN Null
                                              ELSE starts[s]]]

\* Mutant: forgetting some sites drops the epoch origin of every site.
forgetSites_DropsAllOrigins(imps, budget, starts, parsedSites) ==
    LET KeepImpression(e) == e.impressionSite \notin parsedSites
        KeepEntry(e) == e.site \notin parsedSites
    IN  [impressions |-> SelectSeq(imps, KeepImpression),
         privacyBudgetStore |-> SelectSeq(budget, KeepEntry),
         epochStartStore |-> [s \in Sites |-> Null]]

\* clearState(sites, true) with some sites: the three stores after the call.
forgetSites(imps, budget, starts, parsedSites) ==
    LET KeepImpression(e) == e.impressionSite \notin parsedSites
        KeepEntry(e) == e.site \notin parsedSites
    IN  [impressions |-> SelectSeq(imps, KeepImpression),
         privacyBudgetStore |-> SelectSeq(budget, KeepEntry),
         epochStartStore |-> [s \in Sites |-> IF s \in parsedSites THEN Null
                                              ELSE starts[s]]]

clearState(sites, forgetVisits, ps) ==
    LET parsedSites == parseSites(sites)
        outcome == clearStateOutcome(sites, forgetVisits)
        zeroed == zeroBudgetForSites(epochStartStore, privacyBudgetStore,
                                     lastBrowsingHistoryClear, sites, now, ps)
        forgotten == IF parsedSites = {}
                     THEN forgetAllSites(impressions, privacyBudgetStore, epochStartStore)
                     ELSE forgetSites(impressions, privacyBudgetStore, epochStartStore,
                                      parsedSites)
    IN  /\ last' = [op |-> "clearState", sites |-> sites,
                    forgetVisits |-> forgetVisits, outcome |-> outcome]
        /\ IF outcome # "ok"
           THEN UNCHANGED <<impressions, epochStartStore, privacyBudgetStore,
                            lastBrowsingHistoryClear>>
           ELSE IF ~forgetVisits
           THEN /\ epochStartStore' = zeroed.epochStartStore
                /\ privacyBudgetStore' = zeroed.privacyBudgetStore
                /\ UNCHANGED <<impressions, lastBrowsingHistoryClear>>
           ELSE /\ impressions' = forgotten.impressions
                /\ privacyBudgetStore' = forgotten.privacyBudgetStore
                /\ epochStartStore' = forgotten.epochStartStore
                /\ lastBrowsingHistoryClear' = now
        /\ UNCHANGED <<enabled, now>>

\* Mutant: the filter also drops the oldest impression it would keep.
unexpiredImpressions_DropsOldest(imps, t) ==
    LET Keep(impression) == t < impression.timestamp + impression.lifetime
        kept == SelectSeq(imps, Keep)
    IN  IF kept = <<>> THEN kept ELSE Tail(kept)

\* The filter of clearExpiredImpressions at instant t.
unexpiredImpressions(imps, t) ==
    LET Keep(impression) == t < impression.timestamp + impression.lifetime
    IN  SelectSeq(imps, Keep)

\* The record of the call says how many impressions it removed and whether
\* the call before it was a clearExpiredImpressions too.
clearExpiredImpressions ==
    /\ impressions' = unexpiredImpressions(impressions, now)
    /\ last' = [op |-> "clearExpiredImpressions",
                removed |-> Len(impressions) - Len(impressions'),
                again |-> last.op = "clearExpiredImpressions"]
    /\ UNCHANGED <<enabled, epochStartStore, privacyBudgetStore,
                   lastBrowsingHistoryClear, now>>

\* The host's write of Backend.enabled.
setEnabled(b) ==
    /\ enabled' = b
    /\ last' = [op |-> "setEnabled", value |-> b]
    /\ UNCHANGED <<impressions, epochStartStore, privacyBudgetStore,
                   lastBrowsingHistoryClear, now>>

\* The host's clock moves on between two calls.
advanceTime ==
    /\ now' = now + 1
    /\ last' = [op |-> "advanceTime"]
    /\ UNCHANGED <<enabled, impressions, epochStartStore, privacyBudgetStore,
                   lastBrowsingHistoryClear>>

(***************************************************************************)
(* The calls the host makes.  Each specification explores them with inputs *)
(* from its own sets: in.sites (impression sites), in.impressionOptions,   *)
(* in.topLevelSites, in.conversionOptions and in.siteLists.  The rng       *)
(* outputs p and ps[site] are read only when an epoch origin is drawn.     *)
(***************************************************************************)
SaveImpression(in) ==
    \E s \in in.sites, o \in in.impressionOptions : saveImpression(s, Undefined, o)

MeasureConversion(in) ==
    \E s \in in.topLevelSites, o \in in.conversionOptions, p \in Rand, r \in Rand :
        /\ (s \notin Sites \/ epochStartStore[s] # Null) => p = 0
        /\ Len(o.credit) < 2 => r = 0
        /\ measureConversion(s, Undefined, o, p, <<r>>)

ClearImpressionsForSite(in) ==
    \E s \in in.sites : clearImpressionsForSite(s)

ClearState(in) ==
    \E sites \in in.siteLists, f \in BOOLEAN, ps \in [Sites -> Rand] :
        /\ \A s \in Sites :
              (f \/ s \notin SeqRange(sites) \/ epochStartStore[s] # Null) => ps[s] = 0
        /\ clearState(sites, f, ps)

\* saveImpression called on behalf of an intermediary (or of none).
SaveImpressionVia(in) ==
    \E s \in in.sites, via \in in.intermediarySites, o \in in.impressionOptions :
        saveImpression(s, via, o)

\* saveImpression with one of the argument lists given.
SaveImpressionCall(in) ==
    \E c \in in.impressionCalls : saveImpression(c.site, c.via, c.options)

\* measureConversion with one of the argument lists given.
MeasureConversionCall(in) ==
    \E c \in in.conversionCalls, p \in Rand, r \in Rand :
        /\ epochStartStore[c.site] # Null => p = 0
        /\ Len(c.options.credit) < 2 => r = 0
        /\ measureConversion(c.site, c.via, c.options, p, <<r>>)

SetEnabled == \E b \in BOOLEAN : setEnabled(b)

Bounded == steps < MaxSteps /\ steps' = steps + 1

(***************************************************************************)
(* Spec: the ledger, the epochs and the clears.  Impressions of two sites, *)
(* conversions on site "a" in both regimes (a lookback of 1 day can stay   *)
(* within the current epoch, one of 3 days never does).                    *)
(***************************************************************************)
LedgerInputs ==
    [sites |-> Sites,
     impressionOptions |->
        [histogramIndex : {0}, matchValue : {0}, conversionSites : {<<>>},
         conversionCallers : {<<>>}, lifetimeDays : {3}, priority : {0}],
     topLevelSites |-> {"a"},
     conversionOptions |->
        [aggregationService : AggregationServices, epsilon : {800},
         histogramSize : {1}, lookbackDays : {1, 3}, credit : {<<1>>},
         value : {2}, maxValue : {2}, matchValues : {<<>>},
         impressionSites : {<<>>}, impressionCallers : {<<>>}],
     siteLists |-> {<<>>, <<"a">>, <<"b">>, <<"a", "b">>}]

Next ==
    \/ Bounded /\ SaveImpression(LedgerInputs)
    \/ Bounded /\ MeasureConversion(LedgerInputs)
    \/ Bounded /\ ClearImpressionsForSite(LedgerInputs)
    \/ Bounded /\ ClearState(LedgerInputs)
    \/ Bounded /\ clearExpiredImpressions
    \/ Bounded /\ SetEnabled
    \/ Bounded /\ advanceTime

Spec == Init /\ [][Next]_vars

(***************************************************************************)
(* SpecHistogram: the histogram.  Impressions of one site with both        *)
(* histogram indices, conversions that ask for a histogram of either size  *)
(* and give credit to one or two impressions, the second of them with      *)
(* fractional shares (2/3 and 4/3 of the value).                           *)
(***************************************************************************)
HistogramInputs ==
    [sites |-> {"a"},
     impressionOptions |->
        [histogramIndex : {0, 1}, matchValue : {0}, conversionSites : {<<>>},
         conversionCallers : {<<>>}, lifetimeDays : {3}, priority : {0}],
     topLevelSites |-> {"a"},
     conversionOptions |->
        [aggregationService : AggregationServices, epsilon : {800},
         histogramSize : {1, 2}, lookbackDays : {1, 3}, credit : {<<1>>, <<1, 2>>},
         value : {2}, maxValue : {2}, matchValues : {<<>>},
         impressionSites : {<<>>}, impressionCallers : {<<>>}],
     siteLists |-> {<<>>, <<"a">>}]

NextHistogram ==
    \/ Bounded /\ SaveImpression(HistogramInputs)
    \/ Bounded /\ MeasureConversion(HistogramInputs)
    \/ Bounded /\ ClearImpressionsForSite(HistogramInputs)
    \/ Bounded /\ ClearState(HistogramInputs)
    \/ Bounded /\ clearExpiredImpressions
    \/ Bounded /\ SetEnabled
    \/ Bounded /\ advanceTime

SpecHistogram == Init /\ [][NextHistogram]_vars

(***************************************************************************)
(* SpecMatch: the roles a site plays in an impression.  Four impressions:  *)
(* of "a"; of "b"; of "a" through the intermediary "b"; of "a" for the     *)
(* conversion site "b" alone, which conversions on "a" do not match.       *)
(***************************************************************************)
MatchOptions(conversionSites) ==
    [histogramIndex |-> 0, matchValue |-> 0, conversionSites |-> conversionSites,
     conversionCallers |-> <<>>, lifetimeDays |-> 3, priority |-> 0]

MatchInputs ==
    [sites |-> Sites,
     impressionCalls |->
        {[site |-> "a", via |-> Undefined, options |-> MatchOptions(<<>>)],
         [site |-> "b", via |-> Undefined, options |-> MatchOptions(<<>>)],
         [site |-> "a", via |-> "b",       options |-> MatchOptions(<<>>)],
         [site |-> "a", via |-> Undefined, options |-> MatchOptions(<<"b">>)]},
     topLevelSites |-> {"a"},
     conversionOptions |->
        [aggregationService : AggregationServices, epsilon : {800},
         histogramSize : {1}, lookbackDays : {1, 3}, credit : {<<1>>},
         value : {2}, maxValue : {2}, matchValues : {<<>>},
         impressionSites : {<<>>}, impressionCallers : {<<>>}],
     siteLists |-> {<<"b">>}]

NextMatch ==
    \/ Bounded /\ SaveImpressionCall(MatchInputs)
    \/ Bounded /\ MeasureConversion(MatchInputs)
    \/ Bounded /\ ClearImpressionsForSite(MatchInputs)
    \/ Bounded /\ ClearState(MatchInputs)
    \/ Bounded /\ clearExpiredImpressions
    \/ Bounded /\ SetEnabled
    \/ Bounded /\ advanceTime

SpecMatch == Init /\ [][NextMatch]_vars

(***************************************************************************)
(* SpecForgotten: the runs that begin with clearState([], true), at        *)
(* instant 0; every epoch origin of such a run is drawn after that call.   *)
(***************************************************************************)
ForgetAll == clearState(<<>>, TRUE, [s \in Sites |-> 0])

NextForgotten ==
    \/ steps = 0 /\ Bounded /\ ForgetAll
    \/ steps > 0 /\ Bounded /\ SaveImpression(LedgerInputs)
    \/ steps > 0 /\ Bounded /\ MeasureConversion(LedgerInputs)
    \/ steps > 0 /\ Bounded /\ ClearImpressionsForSite(LedgerInputs)
    \/ steps > 0 /\ Bounded /\ ClearState(LedgerInputs)
    \/ steps > 0 /\ Bounded /\ clearExpiredImpressions
    \/ steps > 0 /\ Bounded /\ SetEnabled
    \/ steps > 0 /\ Bounded /\ advanceTime

SpecForgotten == Init /\ [][NextForgotten]_vars

(***************************************************************************)
(* SpecValidation: valid and invalid arguments.  A site psl rejects (""),  *)
(* a histogramIndex equal to maxHistogramSize, an aggregation service the  *)
(* delegate does not list, a histogramSize above maxHistogramSize, and an  *)
(* empty list of sites, beside valid arguments, enabled and disabled.      *)
(***************************************************************************)
ValidationInputs ==
    [sites |-> {"a", ""},
     intermediarySites |-> {Undefined, ""},
     impressionOptions |->
        [histogramIndex : {0, maxHistogramSize}, matchValue : {0},
         conversionSites : {<<>>, <<"">>}, conversionCallers : {<<>>},
         lifetimeDays : {3}, priority : {0}],
     topLevelSites |-> {"a", ""},
     conversionOptions |->
        [aggregationService : AggregationServices \cup {"https://other.example/"},
         epsilon : {800}, histogramSize : {1, maxHistogramSize + 1},
         lookbackDays : {1, 3}, credit : {<<1>>},
         value : {2}, maxValue : {2}, matchValues : {<<>>},
         impressionSites : {<<>>}, impressionCallers : {<<>>}],
     siteLists |-> {<<>>, <<"a">>, <<"">>}]

NextValidation ==
    \/ Bounded /\ SaveImpressionVia(ValidationInputs)
    \/ Bounded /\ MeasureConversion(ValidationInputs)
    \/ Bounded /\ ClearImpressionsForSite(ValidationInputs)
    \/ Bounded /\ ClearState(ValidationInputs)
    \/ Bounded /\ clearExpiredImpressions
    \/ Bounded /\ SetEnabled
    \/ Bounded /\ advanceTime

SpecValidation == Init /\ [][NextValidation]_vars

(***************************************************************************)
(* SpecExpiry: impressions of site "a" that live 1 day or 3 days, so that  *)
(* some expire while others are kept.                                      *)
(***************************************************************************)
ExpiryOptions(lifetimeDays) ==
    [histogramIndex |-> 0, matchValue |-> 0, conversionSites |-> <<>>,
     conversionCallers |-> <<>>, lifetimeDays |-> lifetimeDays, priority |-> 0]

ExpiryInputs ==
    [sites |-> {"a"},
     impressionCalls |->
        {[site |-> "a", via |-> Undefined, options |-> ExpiryOptions(1)],
         [site |-> "a", via |-> Undefined, options |-> ExpiryOptions(3)]},
     topLevelSites |-> {"a"},
     conversionOptions |->
        [aggregationService : AggregationServices, epsilon : {800},
         histogramSize : {1}, lookbackDays : {1, 3}, credit : {<<1>>},
         value : {2}, maxValue : {2}, matchValues : {<<>>},
         impressionSites : {<<>>}, impressionCallers : {<<>>}],
     siteLists |-> {<<"a">>}]

NextExpiry ==
    \/ Bounded /\ SaveImpressionCall(ExpiryInputs)
    \/ Bounded /\ MeasureConversion(ExpiryInputs)
    \/ Bounded /\ ClearImpressionsForSite(ExpiryInputs)
    \/ Bounded /\ ClearState(ExpiryInputs)
    \/ Bounded /\ clearExpiredImpressions
    \/ Bounded /\ SetEnabled
    \/ Bounded /\ advanceTime

SpecExpiry == Init /\ [][NextExpiry]_vars

(***************************************************************************)
(* SpecClear: clearImpressionsForSite("a") on impressions that name "a" in *)
(* every role: as the impression site with no intermediary and through the *)
(* intermediary "b"; as the intermediary; as the only conversion site and  *)
(* as one of two; as the only conversion caller and as one of two.         *)
(***************************************************************************)
ClearOptions(conversionSites, conversionCallers) ==
    [histogramIndex |-> 0, matchValue |-> 0, conversionSites |-> conversionSites,
     conversionCallers |-> conversionCallers, lifetimeDays |-> 3, priority |-> 0]

ClearInputs ==
    [sites |-> {"a"},
     impressionCalls |->
        {[site |-> "a", via |-> Undefined, options |-> ClearOptions(<<>>, <<>>)],
         [site |-> "a", via |-> "b",       options |-> ClearOptions(<<>>, <<>>)],
         [site |-> "b", via |-> "a",       options |-> ClearOptions(<<>>, <<>>)],
         [site |-> "b", via |-> Undefined, options |-> ClearOptions(<<"a">>, <<>>)],
         [site |-> "b", via |-> Undefined, options |-> ClearOptions(<<"a", "b">>, <<>>)],
         [site |-> "b", via |-> Undefined, options |-> ClearOptions(<<>>, <<"a">>)],
         [site |-> "b", via |-> Undefined, options |-> ClearOptions(<<>>, <<"a", "b">>)]},
     topLevelSites |-> {"a"},
     conversionOptions |->
        [aggregationService : AggregationServices, epsilon : {800},
         histogramSize : {1}, lookbackDays : {3}, credit : {<<1>>},
         value : {2}, maxValue : {2}, matchValues : {<<>>},
         impressionSites : {<<>>}, impressionCallers : {<<>>}],
     siteLists |-> {<<"a">>}]

NextClear ==
    \/ Bounded /\ SaveImpressionCall(ClearInputs)
    \/ Bounded /\ MeasureConversion(ClearInputs)
    \/ Bounded /\ ClearImpressionsForSite(ClearInputs)
    \/ Bounded /\ ClearState(ClearInputs)
    \/ Bounded /\ clearExpiredImpressions
    \/ Bounded /\ SetEnabled
    \/ Bounded /\ advanceTime

SpecClear == Init /\ [][NextClear]_vars

(***************************************************************************)
(* SpecFilter: the filters of the matcher.  For each filter there is an    *)
(* impression and a conversion on "a" that the filter tells apart: a       *)
(* lifetime of 1 day against a lookback of 3 days and the reverse, an      *)
(* impression for conversions on "b" only, one for the conversion caller   *)
(* "b" only, match values 0 and 1, impression sites "a" and "b", and an    *)
(* impression saved through the intermediary "b".                          *)
(***************************************************************************)
FilterImpression(matchValue, conversionSites, conversionCallers, lifetimeDays) ==
    [histogramIndex |-> 0, matchValue |-> matchValue,
     conversionSites |-> conversionSites, conversionCallers |-> conversionCallers,
     lifetimeDays |-> lifetimeDays, priority |-> 0]

FilterConversion(lookbackDays, matchValues, impressionSites, impressionCallers) ==
    [aggregationService |-> "https://agg.example/", epsilon |-> 800,
     histogramSize |-> 1, lookbackDays |-> lookbackDays, credit |-> <<1>>,
     value |-> 2, maxValue |-> 2, matchValues |-> matchValues,
     impressionSites |-> impressionSites, impressionCallers |-> impressionCallers]

FilterInputs ==
    [sites |-> {"b"},
     impressionCalls |->
        {[site |-> "a", via |-> Undefined,
          options |-> FilterImpression(0, <<>>, <<>>, 1)],
         [site |-> "b", via |-> Undefined,
          options |-> FilterImpression(1, <<>>, <<>>, 3)],
         [site |-> "a", via |-> "b",
          options |-> FilterImpression(0, <<>>, <<>>, 3)],
         [site |-> "a", via |-> Undefined,
          options |-> FilterImpression(0, <<"b">>, <<>>, 3)],
         [site |-> "a", via |-> Undefined,
          options |-> FilterImpression(0, <<>>, <<"b">>, 3)]},
     conversionCalls |->
        {[site |-> "a", via |-> Undefined,
          options |-> FilterConversion(3, <<>>, <<>>, <<>>)],
         [site |-> "a", via |-> Undefined,
          options |-> FilterConversion(1, <<>>, <<>>, <<>>)],
         [site |-> "a", via |-> Undefined,
          options |-> FilterConversion(3, <<1>>, <<>>, <<>>)],
         [site |-> "a", via |-> Undefined,
          options |-> FilterConversion(3, <<>>, <<"b">>, <<>>)],
         [site |-> "a", via |-> Undefined,
          options |-> FilterConversion(3, <<>>, <<>>, <<"b">>)],
         [site |-> "a", via |-> "b",
          options |-> FilterConversion(3, <<>>, <<>>, <<>>)]},
     siteLists |-> {<<"a">>}]

NextFilter ==
    \/ Bounded /\ SaveImpressionCall(FilterInputs)
    \/ Bounded /\ MeasureConversionCall(FilterInputs)
    \/ Bounded /\ ClearImpressionsForSite(FilterInputs)
    \/ Bounded /\ ClearState(FilterInputs)
    \/ Bounded /\ clearExpiredImpressions
    \/ Bounded /\ SetEnabled
    \/ Bounded /\ advanceTime

SpecFilter == Init /\ [][NextFilter]_vars

(***************************************************************************)
(* SpecRanking: the ranking of the pool.  Impressions of site "a" with     *)
(* priority 0 or 1 and histogramIndex 0 or 1, saved at different instants; *)
(* conversions that give credit to one impression or to two (in shares of  *)
(* 2/3 and 4/3 of the value) and ask for a histogram of size 2 or 1.       *)
(***************************************************************************)
RankingImpression(histogramIndex, priority) ==
    [histogramIndex |-> histogramIndex, matchValue |-> 0, conversionSites |-> <<>>,
     conversionCallers |-> <<>>, lifetimeDays |-> 3, priority |-> priority]

RankingConversion(histogramSize, lookbackDays, credit) ==
    [aggregationService |-> "https://agg.example/", epsilon |-> 800,
     histogramSize |-> histogramSize, lookbackDays |-> lookbackDays,
     credit |-> credit, value |-> 2, maxValue |-> 2, matchValues |-> <<>>,
     impressionSites |-> <<>>, impressionCallers |-> <<>>]

RankingInputs ==
    [sites |-> {"a"},
     impressionCalls |->
        {[site |-> "a", via |-> Undefined, options |-> RankingImpression(0, 0)],
         [site |-> "a", via |-> Undefined, options |-> RankingImpression(1, 0)],
         [site |-> "a", via |-> Undefined, options |-> RankingImpression(0, 1)],
         [site |-> "a", via |-> Undefined, options |-> RankingImpression(1, 1)]},
     conversionCalls |->
        {[site |-> "a", via |-> Undefined, options |-> RankingConversion(2, 3, <<1>>)],
         [site |-> "a", via |-> Undefined, options |-> RankingConversion(2, 1, <<1>>)],
         [site |-> "a", via |-> Undefined, options |-> RankingConversion(1, 3, <<1>>)],
         [site |-> "a", via |-> Undefined, options |-> RankingConversion(2, 3, <<1, 2>>)]},
     siteLists |-> {<<"a">>}]

NextRanking ==
    \/ Bounded /\ SaveImpressionCall(RankingInputs)
    \/ Bounded /\ MeasureConversionCall(RankingInputs)
    \/ Bounded /\ ClearImpressionsForSite(RankingInputs)
    \/ Bounded /\ ClearState(RankingInputs)
    \/ Bounded /\ clearExpiredImpressions
    \/ Bounded /\ SetEnabled
    \/ Bounded /\ advanceTime

SpecRanking == Init /\ [][NextRanking]_vars

(***************************************************************************)
(* SpecAllocate: fairlyAllocateCredit on its own.  The arguments are drawn *)
(* in the initial state and the one step calls the function.  The credit   *)
(* vectors are vectors of positive integers: the function looks at         *)
(* value * item / sumCredit only, which a common factor of the items does  *)
(* not change.  `random` holds the outputs rand() gives, one for each       *)
(* iteration of the loop at most.                                          *)
(***************************************************************************)
AllocateInputs ==
    [credit : UNION {[1 .. n -> 1 .. MaxCreditEntry] : n \in 1 .. MaxCreditLength},
     value  : 1 .. MaxAllocatedValue,
     random : [1 .. (MaxCreditLength - 1) -> AllocateRand]]

InitAllocate ==
    /\ enabled = TRUE
    /\ impressions = <<>>
    /\ epochStartStore = [s \in Sites |-> Null]
    /\ privacyBudgetStore = <<>>
    /\ lastBrowsingHistoryClear = Null
    /\ now = 0
    /\ steps = 0
    /\ \E in \in AllocateInputs :
          last = [op |-> "arguments", credit |-> in.credit, value |-> in.value,
                  random |-> in.random]

\* The call: the record holds the arguments, the array returned and the
\* outputs of rand() that were not drawn.
FairlyAllocateCredit ==
    /\ last.op = "arguments"
    /\ \E done \in {AllocateCredit(last.credit, last.value, last.random)} :
          last' = [op |-> "fairlyAllocateCredit", credit |-> last.credit,
                   value |-> last.value, random |-> last.random,
                   result |-> done.credit, rest |-> done.rest]
    /\ UNCHANGED <<enabled, impressions, epochStartStore, privacyBudgetStore,
                   lastBrowsingHistoryClear, now>>

NextAllocate ==
    \/ Bounded /\ FairlyAllocateCredit

SpecAllocate == InitAllocate /\ [][NextAllocate]_vars

(***************************************************************************)
(* SpecHeader: parseMeasureConversionHeader on its own.  The header is     *)
(* drawn in the initial state and the one step parses it.  Each of the     *)
(* required keys is absent, valid, or invalid in each of the ways the      *)
(* parser tells apart; the other keys are absent, valid or of a wrong      *)
(* type.                                                                   *)
(***************************************************************************)
HeaderKeys ==
    {"aggregation-service", "histogram-size", "report-url", "epsilon",
     "lookback-days", "match-values", "impression-sites", "impression-callers",
     "credit", "value", "max-value"}

\* The Dictionary with the items given; the keys left are absent.
Header(aggregationService, histogramSize, reportUrl, epsilon, lookbackDays, credit, value) ==
    [key \in HeaderKeys |->
        IF key = "aggregation-service" THEN aggregationService
        ELSE IF key = "histogram-size" THEN histogramSize
        ELSE IF key = "report-url" THEN reportUrl
        ELSE IF key = "epsilon" THEN epsilon
        ELSE IF key = "lookback-days" THEN lookbackDays
        ELSE IF key = "credit" THEN credit
        ELSE IF key = "value" THEN value
        ELSE Absent]

\* The text "!", which is no dictionary.
NotADictionary ==
    [wellFormed |-> FALSE,
     dict |-> Header(Absent, Absent, Absent, Absent, Absent, Absent, Absent)]

HeaderInputs ==
    {NotADictionary} \cup
    {[wellFormed |-> TRUE, dict |-> Header(a, h, u, e, l, c, v)] :
        a \in {Absent, StringItem(""), TokenItem("a")},
        h \in {Absent, NumberItem(0, 1, 0), NumberItem(0, 0, 0),
               NumberItem(-1, 65535, 0), NumberItem(0, 1, 2), TokenItem("a"),
               NumberItem(MAX_UINT32_HI, 65535, 0),
               NumberItem(MAX_UINT32_HI + 1, 0, 0)},
        u \in {Absent, StringItem("https://r.example"), StringItem("http://r.example"),
               StringItem("xyz"), StringItem("https://:"), TokenItem("a")},
        e \in {Absent, NumberItem(0, 1, 5), TokenItem("a")},
        l \in {Absent, NumberItem(0, 0, 0)},
        c \in {Absent, InnerList(<<NumberItem(0, 1, 0), TokenItem("a")>>)},
        v \in {Absent, NumberItem(0, 2, 0)}}

InitHeader ==
    /\ enabled = TRUE
    /\ impressions = <<>>
    /\ epochStartStore = [s \in Sites |-> Null]
    /\ privacyBudgetStore = <<>>
    /\ lastBrowsingHistoryClear = Null
    /\ now = 0
    /\ steps = 0
    /\ \E in \in HeaderInputs : last = [op |-> "header", input |-> in]

\* The call: the record holds the header and what the parser did with it.
ParseMeasureConversionHeader ==
    /\ last.op = "header"
    /\ last' = [op |-> "parseMeasureConversionHeader", input |-> last.input,
                parsed |-> parseMeasureConversionHeader(last.input, BaseUrl)]
    /\ UNCHANGED <<enabled, impressions, epochStartStore, privacyBudgetStore,
                   lastBrowsingHistoryClear, now>>

NextHeader ==
    \/ Bounded /\ ParseMeasureConversionHeader

SpecHeader == InitHeader /\ [][NextHeader]_vars

(***************************************************************************)
(* SpecStore: the impression store.  Impressions of two sites that differ  *)
(* in every number (one with a lifetime above maxLookbackDays, one with    *)
(* its numbers given in halves, one that names conversion sites), calls    *)
(* with a number that is no integer or out of range, and every operation   *)
(* that removes impressions.                                               *)
(***************************************************************************)
StoreOptions(histogramIndex, matchValue, lifetimeDays, priority, conversionSites) ==
    [histogramIndex |-> histogramIndex, matchValue |-> matchValue,
     conversionSites |-> conversionSites, conversionCallers |-> <<>>,
     lifetimeDays |-> lifetimeDays, priority |-> priority]

\* The same options with the numbers in halves.
InHalves(o) == o @@ [unit |-> 2]

StoreInputs ==
    [sites |-> {"a"},
     impressionCalls |->
        {[site |-> "a", via |-> Undefined, options |-> StoreOptions(0, 0, 1, 0, <<>>)],
         [site |-> "b", via |-> Undefined,
          options |-> StoreOptions(1, 1, maxLookbackDays + 2, 0, <<>>)],
         [site |-> "b", via |-> Undefined,
          options |-> StoreOptions(0, 2, 3, 1, <<"a", "b">>)],
         [site |-> "a", via |-> "b",
          options |-> InHalves(StoreOptions(2, 6, 4, -2, <<>>))],
         [site |-> "a", via |-> Undefined,
          options |-> InHalves(StoreOptions(1, 0, 2, 0, <<>>))],
         [site |-> "a", via |-> Undefined,
          options |-> InHalves(StoreOptions(0, 1, 2, 0, <<>>))],
         [site |-> "a", via |-> Undefined,
          options |-> InHalves(StoreOptions(0, 0, 3, 0, <<>>))],
         [site |-> "a", via |-> Undefined,
          options |-> InHalves(StoreOptions(0, 0, 2, 1, <<>>))],
         [site |-> "a", via |-> Undefined, options |-> StoreOptions(0, 0, 0, 0, <<>>)],
         [site |-> "a", via |-> Undefined, options |-> StoreOptions(0, -1, 1, 0, <<>>)],
         [site |-> "a", via |-> Undefined,
          options |-> StoreOptions(maxHistogramSize, 0, 1, 0, <<>>)]},
     topLevelSites |-> {"a"},
     conversionOptions |->
        [aggregationService : AggregationServices, epsilon : {800},
         histogramSize : {1}, lookbackDays : {3}, credit : {<<1>>},
         value : {2}, maxValue : {2}, matchValues : {<<>>},
         impressionSites : {<<>>}, impressionCallers : {<<>>}],
     siteLists |-> {<<"b">>}]

NextStore ==
    \/ Bounded /\ SaveImpressionCall(StoreInputs)
    \/ Bounded /\ MeasureConversion(StoreInputs)
    \/ Bounded /\ ClearImpressionsForSite(StoreInputs)
    \/ Bounded /\ ClearState(StoreInputs)
    \/ Bounded /\ clearExpiredImpressions
    \/ Bounded /\ SetEnabled
    \/ Bounded /\ advanceTime

SpecStore == Init /\ [][NextStore]_vars

(***************************************************************************)
(* SpecValues: the checks of #validateConversionOptions on value and       *)
(* maxValue on their own.  The two numbers are drawn in the initial state, *)
(* as multiples of 1 / unit from -MaxValueUnits / unit to                  *)
(* MaxValueUnits / unit (integers for unit 1, halves for unit 2), and the  *)
(* one step checks them.                                                   *)
(***************************************************************************)
ValueInputs ==
    [value : (0 - MaxValueUnits) .. MaxValueUnits,
     maxValue : (0 - MaxValueUnits) .. MaxValueUnits,
     unit : {1, 2}]

InitValues ==
    /\ enabled = TRUE
    /\ impressions = <<>>
    /\ epochStartStore = [s \in Sites |-> Null]
    /\ privacyBudgetStore = <<>>
    /\ lastBrowsingHistoryClear = Null
    /\ now = 0
    /\ steps = 0
    /\ \E in \in ValueInputs : last = [op |-> "options", input |-> in]

\* The checks: the record holds the numbers and what the checks did.
ValidateValueAndMaxValue ==
    /\ last.op = "options"
    /\ last' = [op |-> "validateValueAndMaxValue", input |-> last.input,
                outcome |-> validateValueAndMaxValue(last.input.value,
                                                     last.input.maxValue,
                                                     last.input.unit)]
    /\ UNCHANGED <<enabled, impressions, epochStartStore, privacyBudgetStore,
                   lastBrowsingHistoryClear, now>>

NextValues ==
    \/ Bounded /\ ValidateValueAndMaxValue

SpecValues == InitValues /\ [][NextValues]_vars

(***************************************************************************)
(* Vocabulary of the properties.                                           *)
(***************************************************************************)
AllZero(h) == \A i \in 1 .. Len(h) : h[i] = 0

\* The last call was a measureConversion.
Measured == last.op = "measureConversion"

\* The last call was a measureConversion that returned normally.
Returned == Measured /\ last.outcome = "ok"

\* The last call was a clearState(sites, forgetVisits) that returned normally.
Cleared(forgetVisits) ==
    last.op = "clearState" /\ last.outcome = "ok" /\ last.forgetVisits = forgetVisits

\* The epoch of instant t on the origin the store holds for site.
EpochOf(site, t) == getCurrentEpoch(epochStartStore, site, t)

FailedAttempts == {i \in 1 .. Len(last.attempts) : ~last.attempts[i].ok}

PaidAttempts == {i \in 1 .. Len(last.attempts) : last.attempts[i].ok}

\* The retained impressions of the last call (their positions in lastN)
\* whose histogramIndex is past the end of the histogram asked for.
OutOfRange ==
    {k \in 1 .. Len(last.lastN) :
        last.lastN[k].histogramIndex >= last.options.histogramSize}

\* The credit the last call allocated to the retained impressions in K.
CreditOf(K) ==
    SumSeq([k \in 1 .. Len(last.credit) |-> IF k \in K THEN last.credit[k] ELSE 0])

(***************************************************************************)
(* C1 (as stated): the sum of the histogram a measureConversion returns is *)
(* 0 or the conversion's value.                                            *)
(***************************************************************************)
C1_SumIsZeroOrValue ==
    Returned => SumSeq(last.histogram) \in {0, last.options.value}

(***************************************************************************)
(* C1 (amended): the credit allocated to the retained impressions sums to  *)
(* the conversion's value, and the sum of the histogram returned is that   *)
(* value less the credit of the retained impressions whose histogramIndex  *)
(* is at least histogramSize: a sum from 0 to value, and 0 or value when   *)
(* no retained impression is out of range.                                 *)
(***************************************************************************)
C1_SumIsInRangeCredit ==
    Returned =>
        /\ last.lastN # <<>> => CreditOf(1 .. Len(last.lastN)) = last.options.value
        /\ SumSeq(last.histogram) =
               CreditOf(1 .. Len(last.lastN)) - CreditOf(OutOfRange)
        /\ SumSeq(last.histogram) \in 0 .. last.options.value
        /\ OutOfRange = {} => SumSeq(last.histogram) \in {0, last.options.value}

\* A call returned a histogram whose sum is strictly between 0 and value,
\* part of the credit having gone to an impression that is out of range.
C1_Witness ==
    /\ Returned /\ OutOfRange # {}
    /\ SumSeq(last.histogram) > 0
    /\ SumSeq(last.histogram) < last.options.value

(***************************************************************************)
(* C2: the histogram of every measureConversion that returns normally has  *)
(* the length histogramSize asked for.                                     *)
(***************************************************************************)
C2_HistogramHasRequestedSize ==
    Returned => Len(last.histogram) = last.options.histogramSize

\* An enabled call found no match and returned the all-zero histogram of
\* the smaller size.
C2_Witness ==
    /\ Returned /\ last.enabled /\ last.lastN = <<>> /\ last.attempts = <<>>
    /\ last.options.histogramSize = 1 /\ last.histogram = <<0>>

(***************************************************************************)
(* C3 (as stated): whenever a deduction fails during an enabled            *)
(* measureConversion, the call does not raise and its histogram is all     *)
(* zeros.                                                                  *)
(***************************************************************************)
C3_FailedDeductionAllZero ==
    (Measured /\ last.enabled /\ FailedAttempts # {})
        => (last.outcome = "ok" /\ AllZero(last.histogram))

(***************************************************************************)
(* C3 (amended): whenever a deduction fails during an enabled              *)
(* measureConversion the call does not raise; in the single-epoch regime   *)
(* the histogram is all zeros; in the multi-epoch regime no impression of  *)
(* an epoch whose deduction failed receives credit, and the histogram is   *)
(* all zeros when every deduction of the call failed.                      *)
(***************************************************************************)
C3_FailedDeductionDiscardsEpoch ==
    (Measured /\ last.enabled /\ FailedAttempts # {})
        => /\ last.outcome = "ok"
           /\ last.singleEpoch => AllZero(last.histogram)
           /\ PaidAttempts = {} => AllZero(last.histogram)
           /\ \A k \in 1 .. Len(last.lastN), i \in FailedAttempts :
                 EpochOf(last.topLevelSite, last.lastN[k].timestamp)
                     # last.attempts[i].epoch

\* A multi-epoch call in which one epoch's deduction failed and another's
\* succeeded, and credit was given.
C3_Witness ==
    /\ Measured /\ last.enabled /\ ~last.singleEpoch
    /\ FailedAttempts # {} /\ PaidAttempts # {}
    /\ ~AllZero(last.histogram)

\* A single-epoch call whose deduction failed.
C3_WitnessSingle ==
    Measured /\ last.enabled /\ last.singleEpoch /\ FailedAttempts # {}

(***************************************************************************)
(* C4.  The scenario: privacyBudgetMicroEpsilons is 500, and two           *)
(* successive measureConversion calls on the same site in the same epoch   *)
(* each cost 400, the first of them on a cell that did not exist.          *)
(***************************************************************************)
\* The last call was a single-epoch measureConversion that cost 400.
Query400 ==
    /\ Returned /\ last.enabled /\ last.singleEpoch
    /\ Len(last.attempts) = 1 /\ last.attempts[1].deduction = 400

\* The value of the cell the last call deducted from.
QueriedCell ==
    privacyBudgetStore[FindEntry(privacyBudgetStore, last.topLevelSite,
                                 last.currentEpoch)].value

\* This step and the step before it are the two calls of the scenario.
TwoQueries400 ==
    /\ Query400 /\ last.attempts[1].created
    /\ Query400'
    /\ last'.topLevelSite = last.topLevelSite
    /\ last'.currentEpoch = last.currentEpoch

(* C4 (as stated): the first call returns a non-zero histogram, the second *)
(* an all-zero histogram, and the second leaves the cell at 0.             *)
C4_SecondQueryAllZero ==
    [][TwoQueries400 =>
          /\ ~AllZero(last.histogram)
          /\ AllZero(last'.histogram)
          /\ QueriedCell' = 0]_vars

(* C4 (amended): the cell starts at 1500 (500 + 1000), so the first and    *)
(* the second call both return a non-zero histogram and leave the cell at  *)
(* 1100 and 700; a call that costs 400 returns an all-zero histogram and   *)
(* leaves the cell at 0 exactly when the cell holds less than 400 before   *)
(* it (the fourth such call of the sequence).                              *)
C4_SecondQueryPaid ==
    /\ [][TwoQueries400 =>
            /\ ~AllZero(last.histogram) /\ QueriedCell = 1100
            /\ ~AllZero(last'.histogram) /\ QueriedCell' = 700]_vars
    /\ [](Query400 =>
            /\ last.attempts[1].created => last.attempts[1].before = 1500
            /\ IF last.attempts[1].before < 400
               THEN AllZero(last.histogram) /\ QueriedCell = 0
               ELSE /\ ~AllZero(last.histogram)
                    /\ QueriedCell = last.attempts[1].before - 400)

\* The fourth call of the sequence: the cell holds 300 and the call fails.
C4_Witness ==
    /\ Query400 /\ Len(privacyBudgetStore) = 1
    /\ last.attempts[1].before = 300 /\ ~last.attempts[1].ok

(***************************************************************************)
(* C5: in a step that is not a clearState, every budget entry stays where  *)
(* it is in the store, for the same (site, epoch), and its value does not  *)
(* increase.                                                               *)
(***************************************************************************)
C5_BudgetNeverIncreases ==
    [][last'.op # "clearState" =>
          /\ Len(privacyBudgetStore') >= Len(privacyBudgetStore)
          /\ \A i \in 1 .. Len(privacyBudgetStore) :
                /\ privacyBudgetStore'[i].site = privacyBudgetStore[i].site
                /\ privacyBudgetStore'[i].epoch = privacyBudgetStore[i].epoch
                /\ privacyBudgetStore'[i].value <= privacyBudgetStore[i].value]_vars

\* A deduction was paid from an entry that existed before the call.
C5_Witness ==
    /\ Returned
    /\ \E i \in PaidAttempts :
          ~last.attempts[i].created /\ last.attempts[i].deduction > 0

(***************************************************************************)
(* C6 (as stated): once clearState(_, true) has run at instant T, a        *)
(* measureConversion on site s gives credit only to impressions whose      *)
(* epoch, on s's origin, is at least epoch_index(s, T) + 2.                *)
(***************************************************************************)
C6_NoCreditInQuarantine ==
    (Returned /\ last.enabled /\ lastBrowsingHistoryClear # Null)
        => \A k \in 1 .. Len(last.lastN) :
              last.credit[k] > 0
                  => EpochOf(last.topLevelSite, last.lastN[k].timestamp)
                        >= EpochOf(last.topLevelSite, lastBrowsingHistoryClear) + 2

(***************************************************************************)
(* C7 (as stated): a measureConversion on site s that directly follows     *)
(* clearState([s], true), at the same instant, returns an all-zero         *)
(* histogram, adds no budget entry and creates the epoch origin of s and   *)
(* no other.                                                               *)
(***************************************************************************)
C7_ConversionAfterForgetIsZero ==
    [][(/\ Cleared(TRUE) /\ Len(last.sites) = 1
        /\ Returned' /\ last'.enabled /\ last'.topLevelSite = last.sites[1])
          => /\ AllZero(last'.histogram)
             /\ privacyBudgetStore' = privacyBudgetStore
             /\ \A s \in Sites :
                   IF s = last'.topLevelSite
                   THEN epochStartStore[s] = Null /\ epochStartStore'[s] # Null
                   ELSE epochStartStore'[s] = epochStartStore[s]]_vars

(***************************************************************************)
(* C8 (as stated): a measureConversion on site s that directly follows a   *)
(* clearState([s], false) that returned normally, at the same instant,     *)
(* returns an all-zero histogram.                                          *)
(***************************************************************************)
C8_ConversionAfterZeroingIsZero ==
    [][(/\ Cleared(FALSE) /\ Len(last.sites) = 1
        /\ Returned' /\ last'.topLevelSite = last.sites[1])
          => AllZero(last'.histogram)]_vars

(***************************************************************************)
(* C9 (as stated): a clearState(sites, false) with a non-empty list leaves *)
(* the impressions, the epoch-origin map and lastBrowsingHistoryClear      *)
(* unchanged.                                                              *)
(***************************************************************************)
C9_ZeroingLeavesOrigins ==
    [][Cleared(FALSE)' =>
          /\ impressions' = impressions
          /\ epochStartStore' = epochStartStore
          /\ lastBrowsingHistoryClear' = lastBrowsingHistoryClear]_vars

(***************************************************************************)
(* C9 (amended): a clearState(sites, false) with a non-empty list leaves   *)
(* the impressions and lastBrowsingHistoryClear unchanged and changes no   *)
(* epoch origin that exists; it creates the origin of every listed site    *)
(* that had none, within one epoch before now - maxLookbackDays, and of no *)
(* other site.                                                             *)
(***************************************************************************)
C9_ZeroingCreatesMissingOrigins ==
    [][Cleared(FALSE)' =>
          /\ impressions' = impressions
          /\ lastBrowsingHistoryClear' = lastBrowsingHistoryClear
          /\ \A s \in Sites :
                IF epochStartStore[s] = Null /\ s \in SeqRange(last'.sites)
                THEN /\ epochStartStore'[s] # Null
                     /\ epochStartStore'[s] <= now - days(maxLookbackDays)
                     /\ epochStartStore'[s] > now - days(maxLookbackDays)
                                                  - privacyBudgetEpoch
                ELSE epochStartStore'[s] = epochStartStore[s]]_vars

\* The first call is a clearState(sites, false), and it has created the
\* origin of a listed site.
C9_Witness ==
    /\ Cleared(FALSE) /\ steps = 1
    /\ \E s \in SeqRange(last.sites) : epochStartStore[s] # Null

(***************************************************************************)
(* C10: after a clearState(sites, false), for every listed site and every  *)
(* epoch from the site's start epoch to its current epoch there is an      *)
(* entry with value 0; every entry that existed and is not of a listed     *)
(* site and an epoch of that range is unchanged, and every entry added is  *)
(* of a listed site and an epoch of that range.                            *)
(***************************************************************************)
C10_ZeroingCoversWindow ==
    [][Cleared(FALSE)' =>
          LET Listed(e) ==
                  /\ e.site \in SeqRange(last'.sites)
                  /\ e.epoch >= getStartEpoch(epochStartStore',
                                    lastBrowsingHistoryClear', e.site, now')
                  /\ e.epoch <= getCurrentEpoch(epochStartStore', e.site, now')
          IN  /\ \A s \in SeqRange(last'.sites) :
                    \A e \in getStartEpoch(epochStartStore',
                                 lastBrowsingHistoryClear', s, now')
                             .. getCurrentEpoch(epochStartStore', s, now') :
                       /\ FindEntry(privacyBudgetStore', s, e) # 0
                       /\ privacyBudgetStore'[FindEntry(privacyBudgetStore', s, e)].value = 0
              /\ Len(privacyBudgetStore') >= Len(privacyBudgetStore)
              /\ \A i \in 1 .. Len(privacyBudgetStore') :
                    IF Listed(privacyBudgetStore'[i])
                    THEN privacyBudgetStore'[i].value = 0
                    ELSE /\ i <= Len(privacyBudgetStore)
                         /\ privacyBudgetStore'[i] = privacyBudgetStore[i]
              /\ \A i \in 1 .. Len(privacyBudgetStore) :
                    /\ privacyBudgetStore'[i].site = privacyBudgetStore[i].site
                    /\ privacyBudgetStore'[i].epoch = privacyBudgetStore[i].epoch]_vars

\* A clearState(sites, false) has zeroed an entry that held budget, created
\* an entry, and left an entry that holds budget.
C10_Witness ==
    /\ Cleared(FALSE)
    /\ \E i, j, k \in 1 .. Len(privacyBudgetStore) :
          /\ i < j /\ j < k
          /\ privacyBudgetStore[i].value > 0
          /\ privacyBudgetStore[i].site \notin SeqRange(last.sites)
          /\ privacyBudgetStore[j].value = 0
          /\ privacyBudgetStore[j].site \in SeqRange(last.sites)
          /\ privacyBudgetStore[k].value = 0

(***************************************************************************)
(* C11: clearState([], false) throws, and leaves the impressions, the      *)
(* budget entries, the epoch origins and lastBrowsingHistoryClear as they  *)
(* were.                                                                   *)
(***************************************************************************)
C11_ZeroingNoSiteFails ==
    [][(last'.op = "clearState" /\ last'.sites = <<>> /\ ~last'.forgetVisits)
          => /\ last'.outcome = "RangeError"
             /\ impressions' = impressions
             /\ privacyBudgetStore' = privacyBudgetStore
             /\ epochStartStore' = epochStartStore
             /\ lastBrowsingHistoryClear' = lastBrowsingHistoryClear]_vars

\* clearState([], false) has thrown in a state that holds an impression, a
\* budget entry and an epoch origin.
C11_Witness ==
    /\ last.op = "clearState" /\ last.sites = <<>> /\ ~last.forgetVisits
    /\ last.outcome = "RangeError"
    /\ impressions # <<>> /\ privacyBudgetStore # <<>>
    /\ \E s \in Sites : epochStartStore[s] # Null

(***************************************************************************)
(* C12: after clearState([], true) the impression store and the budget     *)
(* store are empty, no site has an epoch origin, and                       *)
(* lastBrowsingHistoryClear is the instant of the call.                    *)
(***************************************************************************)
C12_ForgetAllEmptiesStores ==
    [][(last'.op = "clearState" /\ last'.sites = <<>> /\ last'.forgetVisits)
          => /\ last'.outcome = "ok"
             /\ impressions' = <<>>
             /\ privacyBudgetStore' = <<>>
             /\ \A s \in Sites : epochStartStore'[s] = Null
             /\ lastBrowsingHistoryClear' = now
             /\ now' = now]_vars

\* clearState([], true) has run as the fourth step or later, after time
\* has passed, and has set lastBrowsingHistoryClear to the instant of the
\* call.
C12_Witness ==
    /\ Cleared(TRUE) /\ last.sites = <<>>
    /\ steps >= 4 /\ now > 0 /\ lastBrowsingHistoryClear = now
    /\ impressions = <<>> /\ privacyBudgetStore = <<>>

(***************************************************************************)
(* C13: after clearState(sites, true) with some sites, the impression      *)
(* store is the prior one without the impressions whose impressionSite is  *)
(* listed, in the prior order (an impression that names a listed site as   *)
(* its intermediary or as a conversion site stays); the budget store is    *)
(* the prior one without the entries of the listed sites; the epoch        *)
(* origins are the prior ones without those of the listed sites; and       *)
(* lastBrowsingHistoryClear is the instant of the call.                    *)
(***************************************************************************)
C13_ForgetSitesDropsTheirState ==
    [][(Cleared(TRUE)' /\ last'.sites # <<>>) =>
          LET listed == SeqRange(last'.sites)
              keptI == {i \in 1 .. Len(impressions) :
                          impressions[i].impressionSite \notin listed}
              keptB == {i \in 1 .. Len(privacyBudgetStore) :
                          privacyBudgetStore[i].site \notin listed}
          IN  /\ Len(impressions') = Cardinality(keptI)
              /\ \A i \in keptI :
                    impressions'[Cardinality({j \in keptI : j <= i})] = impressions[i]
              /\ Len(privacyBudgetStore') = Cardinality(keptB)
              /\ \A i \in keptB :
                    privacyBudgetStore'[Cardinality({j \in keptB : j <= i})]
                        = privacyBudgetStore[i]
              /\ \A s \in Sites :
                    epochStartStore'[s] = IF s \in listed THEN Null
                                          ELSE epochStartStore[s]
              /\ lastBrowsingHistoryClear' = now]_vars

\* clearState(sites, true) has kept an impression saved through a listed
\* intermediary, an impression for a listed conversion site, a budget entry
\* and an epoch origin.
C13_Witness ==
    /\ Cleared(TRUE) /\ last.sites # <<>>
    /\ \E i, j \in 1 .. Len(impressions) :
          /\ impressions[i].intermediarySite \in SeqRange(last.sites)
          /\ impressions[j].intermediarySite = Undefined
          /\ impressions[j].conversionSites \cap SeqRange(last.sites) # {}
    /\ privacyBudgetStore # <<>>
    /\ \E s \in Sites : epochStartStore[s] # Null

(***************************************************************************)
(* C14 (as stated), on the runs that begin with clearState([], true): an   *)
(* enabled measureConversion on a site without an epoch origin creates the *)
(* origin, and every measureConversion on a site returns an all-zero       *)
(* histogram as long as now < origin + 2 * privacyBudgetEpoch.             *)
(***************************************************************************)
C14_ZeroUntilTwoEpochsAfterOrigin ==
    /\ [][(Returned' /\ last'.enabled
           /\ epochStartStore[last'.topLevelSite] = Null)
             => epochStartStore'[last'.topLevelSite] # Null]_vars
    /\ []((/\ Returned /\ steps > 0
           /\ epochStartStore[last.topLevelSite] # Null
           /\ now < epochStartStore[last.topLevelSite] + 2 * privacyBudgetEpoch)
             => AllZero(last.histogram))

(***************************************************************************)
(* C15: the epoch origin of a site, once it exists, is the same after      *)
(* every step, except a clearState(sites, true) that lists no site or      *)
(* lists that site.                                                        *)
(***************************************************************************)
C15_OriginStableUntilForgotten ==
    [][\A s \in Sites :
          (/\ epochStartStore[s] # Null
           /\ ~(/\ Cleared(TRUE)'
                /\ (last'.sites = <<>> \/ s \in SeqRange(last'.sites))))
             => epochStartStore'[s] = epochStartStore[s]]_vars

\* clearState(sites, true) has listed some sites, and a site it did not
\* list still has its origin.
C15_Witness ==
    /\ Cleared(TRUE) /\ last.sites # <<>>
    /\ \E s \in Sites \ SeqRange(last.sites) : epochStartStore[s] # Null

(***************************************************************************)
(* C16: while the backend is disabled, a measureConversion with valid      *)
(* arguments returns an all-zero histogram of the size asked for and       *)
(* leaves the budget store, the epoch origins, the impressions and         *)
(* lastBrowsingHistoryClear as they were; with invalid arguments it throws *)
(* the error the checks give for those arguments, as it does when the      *)
(* backend is enabled.                                                     *)
(***************************************************************************)
C16_DisabledConversionIsZero ==
    [][Measured' =>
          /\ last'.outcome \in {"ok", validateConversion(last'.topLevelSite,
                                        last'.intermediarySite, last'.options)}
          /\ validateConversion(last'.topLevelSite, last'.intermediarySite,
                                last'.options) # "ok"
                => last'.outcome # "ok"
          /\ (~enabled /\ last'.outcome = "ok") =>
                /\ last'.histogram = [i \in 1 .. last'.options.histogramSize |-> 0]
                /\ privacyBudgetStore' = privacyBudgetStore
                /\ epochStartStore' = epochStartStore
                /\ impressions' = impressions
                /\ lastBrowsingHistoryClear' = lastBrowsingHistoryClear]_vars

\* A disabled measureConversion has returned while an impression that
\* matches it is stored and its site has no epoch origin.
C16_Witness ==
    /\ Returned /\ ~last.enabled /\ ~enabled
    /\ epochStartStore[last.topLevelSite] = Null
    /\ \E i \in 1 .. Len(impressions) : impressions[i].timestamp = now

\* A disabled measureConversion has thrown for its arguments.
C16_WitnessInvalid ==
    /\ Measured /\ ~last.enabled /\ last.outcome = "ReferenceError"

(***************************************************************************)
(* C17: a saveImpression throws the error its checks give for its          *)
(* arguments, enabled or not; with valid arguments it returns, and         *)
(* appends one impression when the backend is enabled (also after it was   *)
(* disabled and enabled again) and leaves the impressions as they were     *)
(* when it is disabled; it changes nothing else.                           *)
(***************************************************************************)
C17_DisabledSaveStoresNothing ==
    [][last'.op = "saveImpression" =>
          /\ last'.outcome = validateImpression(last'.impressionSite,
                                 last'.intermediarySite, last'.options)
          /\ IF last'.outcome = "ok" /\ enabled
             THEN /\ Len(impressions') = Len(impressions) + 1
                  /\ SubSeq(impressions', 1, Len(impressions)) = impressions
                  /\ impressions'[Len(impressions')].impressionSite
                        = last'.impressionSite
                  /\ impressions'[Len(impressions')].timestamp = now
             ELSE impressions' = impressions
          /\ privacyBudgetStore' = privacyBudgetStore
          /\ epochStartStore' = epochStartStore
          /\ lastBrowsingHistoryClear' = lastBrowsingHistoryClear
          /\ enabled' = enabled]_vars

\* A saveImpression with valid arguments has returned while the backend is
\* disabled, and nothing is stored.
C17_Witness ==
    /\ last.op = "saveImpression" /\ last.outcome = "ok"
    /\ ~enabled /\ impressions = <<>>

\* A saveImpression has stored the first impression as the fourth step
\* (as in: disable, save, enable, save).
C17_WitnessEnabledAgain ==
    /\ last.op = "saveImpression" /\ last.outcome = "ok"
    /\ enabled /\ steps = 4 /\ now = 0 /\ Len(impressions) = 1

(***************************************************************************)
(* C18: a saveImpression, measureConversion or clearState that throws a    *)
(* validation error leaves the impressions, the budget store, the epoch    *)
(* origins and lastBrowsingHistoryClear as they were; and each throws for  *)
(* a site that does not parse, a histogramIndex or histogramSize out of    *)
(* range, an unknown aggregation service, and an empty list of sites       *)
(* without forgetVisits.                                                   *)
(***************************************************************************)
C18_ValidationErrorChangesNothing ==
    [][/\ (/\ last'.op \in {"saveImpression", "measureConversion", "clearState"}
           /\ last'.outcome # "ok")
             => /\ impressions' = impressions
                /\ privacyBudgetStore' = privacyBudgetStore
                /\ epochStartStore' = epochStartStore
                /\ lastBrowsingHistoryClear' = lastBrowsingHistoryClear
       /\ (/\ last'.op = "saveImpression"
           /\ \/ last'.impressionSite \notin Sites
              \/ last'.intermediarySite \notin Sites \cup {Undefined})
             => last'.outcome = "SyntaxError"
       /\ (/\ last'.op = "saveImpression"
           /\ ~(SeqRange(last'.options.conversionSites) \subseteq Sites))
             => last'.outcome \in {"SyntaxError", "RangeError"}
       /\ (/\ last'.op = "saveImpression"
           /\ last'.options.histogramIndex \notin 0 .. (maxHistogramSize - 1))
             => last'.outcome \in {"SyntaxError", "RangeError"}
       /\ (last'.op = "measureConversion" /\ last'.topLevelSite \notin Sites)
             => last'.outcome = "SyntaxError"
       /\ (/\ last'.op = "measureConversion"
           /\ last'.topLevelSite \in Sites
           /\ last'.options.aggregationService \notin AggregationServices)
             => last'.outcome = "ReferenceError"
       /\ (/\ last'.op = "measureConversion"
           /\ last'.options.histogramSize \notin 1 .. maxHistogramSize)
             => last'.outcome \in {"SyntaxError", "ReferenceError", "RangeError"}
       /\ (/\ last'.op = "clearState"
           /\ ~(SeqRange(last'.sites) \subseteq Sites))
             => last'.outcome = "SyntaxError"
       /\ (last'.op = "clearState" /\ last'.sites = <<>> /\ ~last'.forgetVisits)
             => last'.outcome = "RangeError"]_vars

\* saveImpression has thrown for a histogramIndex out of range in a state
\* that holds an impression, a budget entry and an epoch origin.
C18_Witness ==
    /\ last.op = "saveImpression" /\ last.outcome = "RangeError"
    /\ last.options.histogramIndex = maxHistogramSize
    /\ enabled /\ impressions # <<>> /\ privacyBudgetStore # <<>>
    /\ \E s \in Sites : epochStartStore[s] # Null

(***************************************************************************)
(* C19: the histogram an enabled measureConversion returns is the one it   *)
(* returns, for the same arguments, instant and rng outputs, from the same *)
(* state without a stored impression that the matcher rejects in every     *)
(* epoch the call examines (the current epoch of a single-epoch call, the  *)
(* epochs from the start epoch to the current one of a multi-epoch call).  *)
(***************************************************************************)
C19_NonMatchingImpressionIsInert ==
    [][(Returned' /\ last'.enabled) =>
          LET options == ValidatedConversionOptions(last'.options)
              examined == IF last'.singleEpoch THEN {last'.currentEpoch}
                          ELSE last'.startEpoch .. last'.currentEpoch
              Rejected(i) ==
                  \A e \in examined :
                     ~Matches(epochStartStore', impressions[i], last'.topLevelSite,
                              last'.intermediarySite, e, now, options)
              Without(i) ==
                  SubSeq(impressions, 1, i - 1)
                      \o SubSeq(impressions, i + 1, Len(impressions))
          IN  \A i \in 1 .. Len(impressions) :
                 Rejected(i) =>
                    doAttributionAndFillHistogram(
                        Without(i), epochStartStore, privacyBudgetStore,
                        lastBrowsingHistoryClear, last'.topLevelSite,
                        last'.intermediarySite, now, options,
                        last'.random[1], Tail(last'.random)).histogram
                      = last'.histogram]_vars

\* A measureConversion has given credit while an impression is stored that
\* is in the epoch examined, alive and within the lookback, but is for
\* another conversion site.
C19_Witness ==
    /\ Returned /\ last.enabled /\ ~AllZero(last.histogram)
    /\ \E i \in 1 .. Len(impressions) :
          /\ impressions[i].conversionSites # {}
          /\ last.topLevelSite \notin impressions[i].conversionSites
          /\ impressions[i].timestamp = now

(***************************************************************************)
(* C20 (as stated): clearExpiredImpressions removes the impressions with   *)
(* now > timestamp + lifetime and keeps, in their order, those with        *)
(* now <= timestamp + lifetime, the one with now = timestamp + lifetime    *)
(* among them.                                                             *)
(***************************************************************************)
C20_ExpiryKeepsUnexpired ==
    [][last'.op = "clearExpiredImpressions" =>
          LET Unexpired(i) == now <= i.timestamp + i.lifetime
          IN  impressions' = SelectSeq(impressions, Unexpired)]_vars

(***************************************************************************)
(* C21: clearExpiredImpressions is idempotent.  In every state, filtering  *)
(* the store twice at the same instant gives what filtering it once gives; *)
(* and a clearExpiredImpressions that directly follows another, at the     *)
(* same instant, removes nothing and changes nothing else.                 *)
(***************************************************************************)
C21_ExpiryIsIdempotent ==
    /\ [](unexpiredImpressions(unexpiredImpressions(impressions, now), now)
            = unexpiredImpressions(impressions, now))
    /\ [][(last'.op = "clearExpiredImpressions" /\ last'.again)
            => /\ now' = now
               /\ impressions' = impressions
               /\ epochStartStore' = epochStartStore
               /\ privacyBudgetStore' = privacyBudgetStore
               /\ lastBrowsingHistoryClear' = lastBrowsingHistoryClear
               /\ enabled' = enabled]_vars

\* A clearExpiredImpressions has directly followed another, and the store
\* holds an impression saved before the instant of the two calls.
C21_Witness ==
    /\ last.op = "clearExpiredImpressions" /\ last.again
    /\ impressions # <<>>
    /\ \E i \in 1 .. Len(impressions) : impressions[i].timestamp < now

\* A clearExpiredImpressions has removed an impression and kept another.
C21_WitnessRemoved ==
    /\ last.op = "clearExpiredImpressions" /\ last.removed > 0
    /\ impressions # <<>>

(***************************************************************************)
(* C22.  The scenario: an enabled saveImpression(site, no intermediary, no *)
(* conversion sites) that stores an impression, directly followed by       *)
(* clearImpressionsForSite(site).  The store before the saveImpression is  *)
(* the store before the clear without its last impression.                 *)
(***************************************************************************)
\* This step is the clearImpressionsForSite of the scenario.
ClearAfterSave == last'.op = "clearImpressionsForSite" /\ last'.afterSave

\* The store before the saveImpression of the scenario.
StoreBeforeSave == SubSeq(impressions, 1, Len(impressions) - 1)

\* The impression names the site: it is the site's own (saved with no
\* intermediary), or the site is its intermediary, or one of its
\* conversion sites or conversion callers.
NamesSite(i, site) ==
    \/ i.intermediarySite = Undefined /\ i.impressionSite = site
    \/ i.intermediarySite = site
    \/ site \in i.conversionSites
    \/ site \in i.conversionCallers

(* C22 (as stated): the clear leaves the store with exactly its content    *)
(* before the saveImpression.                                              *)
C22_SaveThenClearRestores ==
    [][ClearAfterSave => impressions' = StoreBeforeSave]_vars

(* C22 (amended): the clear removes the impression just saved, and leaves  *)
(* the store as a clearImpressionsForSite(site) run instead of the         *)
(* saveImpression would have left it: without the earlier impressions the  *)
(* rules remove, the others narrowed.  That is the content before the      *)
(* saveImpression exactly when no earlier impression names the site.       *)
C22_SaveThenClearClearsEarlier ==
    [][ClearAfterSave =>
          LET site == last'.site
              Keep(i) == ~shouldRemoveImpression(i, site)
              kept == SelectSeq(StoreBeforeSave, Keep)
          IN  /\ last'.removed >= 1
              /\ impressions' = [k \in 1 .. Len(kept) |-> Narrowed(kept[k], site)]
              /\ \A k \in 1 .. Len(impressions') :
                    ~NamesSite(impressions'[k], site)
              /\ (impressions' = StoreBeforeSave)
                    <=> \A k \in 1 .. Len(StoreBeforeSave) :
                           ~NamesSite(StoreBeforeSave[k], site)]_vars

\* The clear of the scenario has run on a store that held an earlier
\* impression, one that does not name the site, and has left it alone.
C22_Witness ==
    /\ last.op = "clearImpressionsForSite" /\ last.afterSave
    /\ last.removed = 1 /\ impressions # <<>>

\* The clear of the scenario has removed an earlier impression too.
C22_WitnessEarlier ==
    /\ last.op = "clearImpressionsForSite" /\ last.afterSave
    /\ last.removed > 1

(***************************************************************************)
(* C23: clearImpressionsForSite(site) removes an impression if and only if *)
(* (a) it has no intermediarySite and its impressionSite is site, or (b)   *)
(* its intermediarySite is site, or (c) its conversionSites contain site   *)
(* and nothing else, or (d) its conversionCallers contain site and nothing *)
(* else (so an impression of site saved through another intermediary       *)
(* stays); the others stay in their order, each as it was except that site *)
(* is deleted from its conversionSites and its conversionCallers; and the  *)
(* call changes nothing but the impression store.                          *)
(***************************************************************************)
C23_ClearRemovesByRole ==
    [][last'.op = "clearImpressionsForSite" =>
          LET site == last'.site
              Removed(i) ==
                  \/ i.intermediarySite = Undefined /\ i.impressionSite = site
                  \/ i.intermediarySite = site
                  \/ site \in i.conversionSites /\ i.conversionSites \subseteq {site}
                  \/ site \in i.conversionCallers /\ i.conversionCallers \subseteq {site}
              stay == {k \in 1 .. Len(impressions) : ~Removed(impressions[k])}
              Rank(k) == Cardinality({j \in stay : j <= k})
          IN  /\ Len(impressions') = Cardinality(stay)
              /\ \A k \in stay :
                    /\ impressions'[Rank(k)].conversionSites
                          = impressions[k].conversionSites \ {site}
                    /\ impressions'[Rank(k)].conversionCallers
                          = impressions[k].conversionCallers \ {site}
                    /\ \A f \in {"matchValue", "impressionSite", "intermediarySite",
                                  "timestamp", "lifetime", "histogramIndex", "priority"} :
                          impressions'[Rank(k)][f] = impressions[k][f]
              /\ privacyBudgetStore' = privacyBudgetStore
              /\ epochStartStore' = epochStartStore
              /\ lastBrowsingHistoryClear' = lastBrowsingHistoryClear
              /\ enabled' = enabled /\ now' = now]_vars

\* A clearImpressionsForSite(site) has removed an impression, has kept an
\* impression of site saved through another intermediary, and has kept an
\* impression whose conversionCallers it has narrowed to the other site.
C23_Witness ==
    /\ last.op = "clearImpressionsForSite" /\ last.removed > 0
    /\ \E j, k \in 1 .. Len(impressions) :
          /\ impressions[j].impressionSite = last.site
          /\ impressions[j].intermediarySite \notin {Undefined, last.site}
          /\ impressions[k].conversionCallers = Sites \ {last.site}

(***************************************************************************)
(* C24: every impression to which a measureConversion(topLevelSite,        *)
(* intermediarySite, options) at instant now gives credit is a stored      *)
(* impression with: now <= timestamp + lifetime; now <= timestamp +        *)
(* lookback; conversionSites empty or containing topLevelSite;             *)
(* conversionCallers empty or containing the conversion caller             *)
(* (intermediarySite, or topLevelSite when there is none); matchValues     *)
(* empty or containing its matchValue; impressionSites empty or containing *)
(* its impressionSite; impressionCallers empty or containing its caller    *)
(* (its intermediarySite, or its impressionSite when there is none).       *)
(***************************************************************************)
C24_CreditedImpressionMatches ==
    Returned =>
        \A k \in 1 .. Len(last.lastN) :
            last.credit[k] > 0 =>
                LET i == last.lastN[k]
                    o == last.options
                    conversionCaller ==
                        IF last.intermediarySite = Undefined
                        THEN last.topLevelSite ELSE last.intermediarySite
                    impressionCaller ==
                        IF i.intermediarySite = Undefined
                        THEN i.impressionSite ELSE i.intermediarySite
                IN  /\ \E j \in 1 .. Len(impressions) : impressions[j] = i
                    /\ now <= i.timestamp + i.lifetime
                    /\ now <= i.timestamp + days(o.lookbackDays)
                    /\ now <= i.timestamp + days(maxLookbackDays)
                    /\ i.conversionSites = {} \/ last.topLevelSite \in i.conversionSites
                    /\ i.conversionCallers = {} \/ conversionCaller \in i.conversionCallers
                    /\ o.matchValues = <<>> \/ i.matchValue \in SeqRange(o.matchValues)
                    /\ o.impressionSites = <<>>
                          \/ i.impressionSite \in SeqRange(o.impressionSites)
                    /\ o.impressionCallers = <<>>
                          \/ impressionCaller \in SeqRange(o.impressionCallers)

\* The impressions stored, of the epochs the last call looked at, that the
\* call gave no credit.
Uncredited ==
    {j \in 1 .. Len(impressions) :
        /\ EpochOf(last.topLevelSite, impressions[j].timestamp) <= last.currentEpoch
        /\ \/ EpochOf(last.topLevelSite, impressions[j].timestamp) = last.currentEpoch
           \/ /\ ~last.singleEpoch
              /\ EpochOf(last.topLevelSite, impressions[j].timestamp) >= last.startEpoch
        /\ \A k \in 1 .. Len(last.lastN) : last.lastN[k] # impressions[j]}

\* A call on behalf of the intermediary "b" has given its credit to the
\* impression saved for the conversion caller "b", and a call has given
\* none to the impressions of its epoch that a filter rejects.
C24_Witness ==
    /\ Returned /\ last.intermediarySite # Undefined
    /\ \E k \in 1 .. Len(last.lastN) :
          last.credit[k] > 0 /\ last.lastN[k].conversionCallers # {}
    /\ \E j \in Uncredited : impressions[j].conversionSites # {}

\* A call that asks for match value 1 has given credit, and none to a
\* stored impression of its epoch whose match value is 0.
C24_WitnessMatchValue ==
    /\ Returned /\ last.options.matchValues # <<>> /\ ~AllZero(last.histogram)
    /\ \E j \in Uncredited : impressions[j].matchValue = 0

\* A call has given credit, and none to a stored impression of its epoch
\* that is within the lookback and has expired.
C24_WitnessExpired ==
    /\ Returned /\ ~AllZero(last.histogram)
    /\ \E j \in Uncredited :
          /\ now > impressions[j].timestamp + impressions[j].lifetime
          /\ now <= impressions[j].timestamp + days(last.options.lookbackDays)

(***************************************************************************)
(* C25.  The pool of a measureConversion is last.matched, the impressions  *)
(* that receive credit are last.lastN, in rank order, with the credit      *)
(* last.credit.                                                            *)
(***************************************************************************)
\* Impression x does not rank after impression y: its priority is higher,
\* or the same with a timestamp that is not earlier.
RanksNoLower(x, y) ==
    \/ x.priority > y.priority
    \/ x.priority = y.priority /\ x.timestamp >= y.timestamp

\* The positions of the pool that are not among the first n of the pool's
\* ranking `ranked`: the pool without one occurrence of each of them.
RECURSIVE Unranked(_, _)
Unranked(pool, ranked) ==
    IF ranked = <<>> THEN pool
    ELSE LET at == CHOOSE j \in 1 .. Len(pool) : pool[j] = Head(ranked)
         IN  Unranked(SubSeq(pool, 1, at - 1) \o SubSeq(pool, at + 1, Len(pool)),
                      Tail(ranked))

\* The last call returned the histogram of a non-empty pool: a
\* measureConversion whose deductions all succeeded.
Credited == Returned /\ last.lastN # <<>> /\ FailedAttempts = {}

\* The last call is a Credited one with credit = [1].
CreditedOne == Credited /\ last.options.credit = <<1>>

(* C25 (as stated): the pool is ranked by priority descending, then        *)
(* timestamp descending; the first N = min(credit.length, pool size)       *)
(* impressions receive credit, the i-th of them the allocation for         *)
(* credit[i]; and with credit = [1] the whole value is in the cell of the  *)
(* histogram for the histogramIndex of the first-ranked impression.        *)
C25_WholeValueOnTopRanked ==
    CreditedOne =>
        /\ last.lastN[1].histogramIndex < Len(last.histogram)
        /\ last.histogram[last.lastN[1].histogramIndex + 1] = last.options.value

(* C25 (amended): as stated, except that the credit of an impression whose *)
(* histogramIndex is at least histogramSize is dropped: with credit = [1]  *)
(* the whole value is in the cell for the histogramIndex of the            *)
(* first-ranked impression when that index is below histogramSize, and the *)
(* histogram is all zeros otherwise.                                       *)
C25_RankedCreditInRange ==
    Credited =>
        LET N == Min(Len(last.options.credit), Len(last.matched))
            rest == Unranked(last.matched, last.lastN)
        IN  /\ Len(last.lastN) = N /\ Len(last.credit) = N
            /\ \A k \in 1 .. N : \E j \in 1 .. Len(last.matched) :
                  last.matched[j] = last.lastN[k]
            /\ \A k \in 1 .. N - 1 : RanksNoLower(last.lastN[k], last.lastN[k + 1])
            /\ Len(rest) = Len(last.matched) - N
            /\ \A j \in 1 .. Len(rest) : RanksNoLower(last.lastN[N], rest[j])
            /\ last.credit = fairlyAllocateCredit(SubSeq(last.options.credit, 1, N),
                                                  last.options.value,
                                                  Tail(last.random))
            /\ \A h \in 1 .. Len(last.histogram) :
                  last.histogram[h] =
                      CreditOf({k \in 1 .. N : last.lastN[k].histogramIndex = h - 1})
            /\ CreditedOne =>
                  /\ last.credit = <<last.options.value>>
                  /\ \A h \in 1 .. Len(last.histogram) :
                        last.histogram[h] =
                            IF last.lastN[1].histogramIndex = h - 1
                            THEN last.options.value ELSE 0
                  /\ last.lastN[1].histogramIndex >= Len(last.histogram)
                        => AllZero(last.histogram)

\* A call with credit = [1] has put the whole value in cell 1 of the
\* histogram, the cell of an impression that outranks two others of the
\* pool: one of lower priority stored after it, one of its priority saved
\* earlier.
C25_Witness ==
    /\ CreditedOne /\ last.histogram = <<0, last.options.value>>
    /\ \E i, j, k \in 1 .. Len(last.matched) :
          /\ last.matched[k] = last.lastN[1] /\ k < i
          /\ last.matched[i].priority < last.lastN[1].priority
          /\ last.matched[i].timestamp >= last.lastN[1].timestamp
          /\ last.matched[j].priority = last.lastN[1].priority
          /\ last.matched[j].timestamp < last.lastN[1].timestamp

\* A call with credit = [1] has put the whole value in the cell of an
\* impression that outranks one of lower priority saved later.
C25_WitnessPriority ==
    /\ CreditedOne /\ ~AllZero(last.histogram)
    /\ \E i \in 1 .. Len(last.matched) :
          /\ last.matched[i].priority < last.lastN[1].priority
          /\ last.matched[i].timestamp > last.lastN[1].timestamp

\* A call with credit = [1, 2] has given the two first-ranked impressions
\* of a pool of three the credit 1 and 1 (from 2/3 and 4/3).
C25_WitnessTwo ==
    /\ Credited /\ Len(last.matched) = 3 /\ last.credit = <<1, 1>>

\* A call with credit = [1] has dropped the value: the first-ranked
\* impression has histogramIndex 1 and the histogram has size 1.
C25_WitnessDropped ==
    /\ CreditedOne /\ last.lastN[1].histogramIndex >= Len(last.histogram)
    /\ AllZero(last.histogram)

(***************************************************************************)
(* fairlyAllocateCredit on its own (SpecAllocate).                         *)
(***************************************************************************)
\* The last step was the call of fairlyAllocateCredit.
Allocated == last.op = "fairlyAllocateCredit"

\* value * credit[i] / sum(credit) is an integer for every i.
WholeShares ==
    \A i \in 1 .. Len(last.credit) :
        (last.value * last.credit[i]) % SumSeq(last.credit) = 0

\* The number of outputs of rand() the call drew.
Drawn == Len(last.random) - Len(last.rest)

(***************************************************************************)
(* C26: the array fairlyAllocateCredit returns has the length of credit    *)
(* and its entries sum to value.                                           *)
(***************************************************************************)
C26_AllocationSumsToValue ==
    Allocated =>
        /\ Len(last.result) = Len(last.credit)
        /\ SumSeq(last.result) = last.value

\* A call with three shares, none of them an integer, drew two outputs of
\* rand() and returned an array with two entries above 0.
C26_Witness ==
    /\ Allocated /\ Len(last.credit) = 3 /\ Drawn = 2
    /\ \A i \in 1 .. 3 : (last.value * last.credit[i]) % SumSeq(last.credit) # 0
    /\ \E i, j \in 1 .. 3 : i # j /\ last.result[i] > 0 /\ last.result[j] > 0

(***************************************************************************)
(* C27: every entry of the array fairlyAllocateCredit returns is a         *)
(* non-negative integer.                                                   *)
(***************************************************************************)
C27_AllocationIsNatural ==
    Allocated => \A i \in 1 .. Len(last.result) : last.result[i] \in Nat

\* A call whose shares are all below 1 (1/3 each) returned 0 for two of
\* them.
C27_Witness ==
    /\ Allocated /\ Len(last.credit) = 3
    /\ \A i \in 1 .. 3 : last.value * last.credit[i] < SumSeq(last.credit)
    /\ \E i, j \in 1 .. 3 : i # j /\ last.result[i] = 0 /\ last.result[j] = 0

(***************************************************************************)
(* C28: when value * credit[i] / sum(credit) is an integer for every i,    *)
(* fairlyAllocateCredit returns that vector, whatever rand() would give,   *)
(* and draws nothing.                                                      *)
(***************************************************************************)
C28_WholeSharesAreKept ==
    (Allocated /\ WholeShares) =>
        /\ last.result = [i \in 1 .. Len(last.credit) |->
                             (last.value * last.credit[i]) \div SumSeq(last.credit)]
        /\ Drawn = 0

\* A call with unequal whole shares (as 1 and 2, of the value 3 and the
\* credit [1, 2]), while rand() would have given two different outputs.
C28_Witness ==
    /\ Allocated /\ WholeShares /\ Len(last.credit) >= 2
    /\ last.result[1] # last.result[2]
    /\ last.random[1] # last.random[2]

(***************************************************************************)
(* C29: when every rand() is an independent draw, uniform on [0, 1), the   *)
(* expected value of entry i of the array fairlyAllocateCredit returns is  *)
(* value * credit[i] / sum(credit).                                        *)
(***************************************************************************)
C29_AllocationIsUnbiased ==
    Allocated =>
        \E e \in {ExpectedCredit(last.credit, last.value)} :
            \A i \in 1 .. Len(last.credit) :
                e.num[i] * SumSeq(last.credit) = last.value * last.credit[i] * e.den

\* A call with three shares, none of them an integer and not all equal.
C29_Witness ==
    /\ Allocated /\ Len(last.credit) = 3 /\ Drawn = 2
    /\ \A i \in 1 .. 3 : (last.value * last.credit[i]) % SumSeq(last.credit) # 0
    /\ last.credit[1] # last.credit[2]

(***************************************************************************)
(* C30 (as stated): parseMeasureConversionHeader throws for every header   *)
(* that has no histogram-size key, as it does for every header that has no *)
(* aggregation-service key or no report-url key.                           *)
(***************************************************************************)
C30_MissingHistogramSizeThrows ==
    last.op = "parseMeasureConversionHeader" =>
        /\ last.input.dict["aggregation-service"].type = "absent"
              => last.parsed.outcome # "ok"
        /\ last.input.dict["report-url"].type = "absent"
              => last.parsed.outcome # "ok"
        /\ last.input.dict["histogram-size"].type = "absent"
              => last.parsed.outcome # "ok"

(***************************************************************************)
(* Vocabulary of the deductions of a call.                                 *)
(***************************************************************************)
\* The call ran the attribution (it passed the checks with the backend
\* enabled) and returned.
Attributed(call) ==
    call.op = "measureConversion" /\ call.outcome = "ok" /\ call.enabled

MultiEpochCall(call) == Attributed(call) /\ ~call.singleEpoch

SingleEpochCall(call) == Attributed(call) /\ call.singleEpoch

\* The impressions the matcher returns for `epoch` in the call, `starts`
\* being the epoch origins after the call (measureConversion changes
\* neither the impressions nor the clock).
EpochMatches(call, starts, epoch) ==
    commonMatchingLogic(impressions, starts, parseSite(call.topLevelSite),
                        call.intermediarySite, epoch, now,
                        ValidatedConversionOptions(call.options))

\* ceil(sensitivity * epsilon / (2 * maxValue) * 1000000), epsilon being in
\* micro-epsilons.
CostOf(sensitivity, o) ==
    (sensitivity * o.epsilon + 2 * o.maxValue - 1) \div (2 * o.maxValue)

\* The value of the cell in a budget store, Null when it has no entry.
CellValue(store, site, epoch) ==
    IF FindEntry(store, site, epoch) = 0 THEN Null
    ELSE store[FindEntry(store, site, epoch)].value

\* The cells of a budget store.
Cells(store) == {<<store[k].site, store[k].epoch>> : k \in 1 .. Len(store)}

\* What one deduction of `attempt` makes of a cell with value `before`
\* (Null for a cell without entry).
AfterAttempt(before, attempt) ==
    IF ~attempt.ok THEN 0
    ELSE (IF before = Null THEN NewEntryValue ELSE before) - attempt.deduction

(***************************************************************************)
(* C31: in the multi-epoch regime measureConversion makes exactly one      *)
(* deduction attempt, with sensitivity 2 * value, for each epoch from the  *)
(* start epoch to the current epoch that has a match, in increasing epoch  *)
(* order; the pool holds the impressions of exactly the epochs whose       *)
(* deduction succeeded; an epoch without matches gets no deduction and no  *)
(* budget entry; and the budget store after the call is the one these      *)
(* deductions leave (none is made after the histogram is computed).        *)
(***************************************************************************)
C31_SweepDeductsOncePerMatchedEpoch ==
    [][MultiEpochCall(last') =>
        LET call  == last'
            site  == parseSite(call.topLevelSite)
            A     == call.attempts
            swept == {e \in call.startEpoch .. call.currentEpoch :
                         EpochMatches(call, epochStartStore', e) # <<>>}
        IN  /\ {A[i].epoch : i \in DOMAIN A} = swept
            /\ \A i, j \in DOMAIN A : i < j => A[i].epoch < A[j].epoch
            /\ \A i \in DOMAIN A :
                  /\ A[i].l1Norm = Null
                  /\ A[i].deduction = CostOf(2 * call.options.value, call.options)
                  /\ A[i].created <=> CellValue(privacyBudgetStore, site, A[i].epoch) = Null
                  /\ CellValue(privacyBudgetStore', site, A[i].epoch)
                       = AfterAttempt(CellValue(privacyBudgetStore, site, A[i].epoch), A[i])
            /\ SeqRange(call.matched)
                 = UNION {SeqRange(EpochMatches(call, epochStartStore', A[i].epoch)) :
                             i \in {j \in DOMAIN A : A[j].ok}}
            /\ Cells(privacyBudgetStore')
                 = Cells(privacyBudgetStore) \cup {<<site, e>> : e \in swept}
            /\ Len(privacyBudgetStore')
                 = Len(privacyBudgetStore) + Cardinality({i \in DOMAIN A : A[i].created})
            /\ \A c \in Cells(privacyBudgetStore) :
                  (c[1] # site \/ c[2] \notin swept)
                      => CellValue(privacyBudgetStore', c[1], c[2])
                           = CellValue(privacyBudgetStore, c[1], c[2])]_vars

\* A multi-epoch call that deducted for two epochs and passed over an epoch
\* of its window that had no match.
C31_Witness ==
    /\ MultiEpochCall(last)
    /\ Len(last.attempts) >= 2
    /\ \E e \in last.startEpoch .. last.currentEpoch :
          \A i \in DOMAIN last.attempts : last.attempts[i].epoch # e
    /\ last.matched # <<>>

\* A multi-epoch call whose deduction failed: the epoch's matches are not
\* in the pool.
C31_WitnessFailed ==
    /\ MultiEpochCall(last)
    /\ \E i \in DOMAIN last.attempts : ~last.attempts[i].ok
    /\ last.matched = <<>>

(***************************************************************************)
(* C32: in the single-epoch regime the histogram measureConversion         *)
(* computes is that of the matches of the current epoch, whatever the      *)
(* budget store holds; the call then makes exactly one deduction, on the   *)
(* cell (site, current epoch), with the L1 norm of that histogram as       *)
(* sensitivity, and changes nothing else in the budget store; without      *)
(* matches it makes no deduction and leaves the budget store as it was;    *)
(* if the deduction fails the histogram returned is all zeros.             *)
(***************************************************************************)
C32_SingleEpochDeductsL1NormOnce ==
    [][SingleEpochCall(last') =>
        LET call    == last'
            site    == parseSite(call.topLevelSite)
            o       == ValidatedConversionOptions(call.options)
            A       == call.attempts
            matches == EpochMatches(call, epochStartStore', call.currentEpoch)
            filled  == fillHistogramWithLastNTouchAttribution(
                           matches, o.histogramSize, o.value, o.credit,
                           Tail(call.random))
            l1Norm  == SumSeq(filled.histogram)
        IN  /\ call.matched = matches
            /\ matches = <<>> =>
                  /\ A = <<>>
                  /\ privacyBudgetStore' = privacyBudgetStore
                  /\ call.histogram = allZeroHistogram(o.histogramSize)
            /\ matches # <<>> =>
                  /\ Len(A) = 1
                  /\ A[1].epoch = call.currentEpoch
                  /\ A[1].l1Norm = l1Norm
                  /\ A[1].deduction = CostOf(l1Norm, call.options)
                  /\ A[1].created
                       <=> CellValue(privacyBudgetStore, site, call.currentEpoch) = Null
                  /\ CellValue(privacyBudgetStore', site, call.currentEpoch)
                       = AfterAttempt(CellValue(privacyBudgetStore, site, call.currentEpoch),
                                      A[1])
                  /\ Cells(privacyBudgetStore')
                       = Cells(privacyBudgetStore) \cup {<<site, call.currentEpoch>>}
                  /\ Len(privacyBudgetStore')
                       = Len(privacyBudgetStore) + (IF A[1].created THEN 1 ELSE 0)
                  /\ \A c \in Cells(privacyBudgetStore) :
                        c # <<site, call.currentEpoch>>
                            => CellValue(privacyBudgetStore', c[1], c[2])
                                 = CellValue(privacyBudgetStore, c[1], c[2])
                  /\ call.histogram = IF A[1].ok THEN filled.histogram
                                      ELSE allZeroHistogram(o.histogramSize)]_vars

\* A single-epoch call with a match whose deduction failed.
C32_Witness ==
    /\ SingleEpochCall(last)
    /\ last.matched # <<>>
    /\ Len(last.attempts) = 1
    /\ ~last.attempts[1].ok
    /\ AllZero(last.histogram)

\* A single-epoch call with a match whose deduction created the entry and
\* succeeded.
C32_WitnessPaid ==
    /\ SingleEpochCall(last)
    /\ Len(last.attempts) = 1
    /\ last.attempts[1].ok
    /\ last.attempts[1].created
    /\ ~AllZero(last.histogram)

\* A single-epoch call without matches, on a budget store that has entries.
C32_WitnessNoMatch ==
    /\ SingleEpochCall(last)
    /\ last.matched = <<>>
    /\ privacyBudgetStore # <<>>

\* A single-epoch call whose histogram has an L1 norm below `value` (part
\* of the credit fell outside the histogram): the deduction is that of the
\* norm.
C32_WitnessPartial ==
    /\ SingleEpochCall(last)
    /\ Len(last.attempts) = 1
    /\ last.attempts[1].ok
    /\ last.attempts[1].l1Norm > 0
    /\ last.attempts[1].l1Norm < last.options.value

\* A single-epoch call whose histogram is all zeros before the deduction:
\* the deduction is 0 and creates the entry.
C32_WitnessZeroNorm ==
    /\ SingleEpochCall(last)
    /\ Len(last.attempts) = 1
    /\ last.attempts[1].l1Norm = 0
    /\ last.attempts[1].created

(***************************************************************************)
(* C33: a deduction of cost ceil(sensitivity * epsilon / (2 * maxValue) *  *)
(* 1000000) on a cell with `remaining` left (the initial value for a cell  *)
(* without entry) succeeds iff cost <= remaining and then leaves           *)
(* remaining - cost; a failed deduction leaves 0.  A cell at 0 stays at 0  *)
(* (so every deduction of positive cost on it fails) until a               *)
(* clearState(_, true) removes it.                                         *)
(***************************************************************************)
C33_DeductionIsAllOrNothing ==
    [][/\ Attributed(last') =>
            \A i \in DOMAIN last'.attempts :
                LET attempt   == last'.attempts[i]
                    site      == parseSite(last'.topLevelSite)
                    held      == CellValue(privacyBudgetStore, site, attempt.epoch)
                    remaining == IF held = Null THEN NewEntryValue ELSE held
                    cost      == CostOf(Sensitivity(attempt.l1Norm, last'.options.value),
                                        last'.options)
                IN  /\ attempt.deduction = cost
                    /\ attempt.before = remaining
                    /\ attempt.ok <=> cost <= remaining
                    /\ CellValue(privacyBudgetStore', site, attempt.epoch)
                         = IF attempt.ok THEN remaining - cost ELSE 0
                    /\ (held = 0 /\ cost > 0) => ~attempt.ok
       /\ \A c \in Cells(privacyBudgetStore) :
            CellValue(privacyBudgetStore, c[1], c[2]) = 0 =>
                \/ CellValue(privacyBudgetStore', c[1], c[2]) = 0
                \/ /\ c \notin Cells(privacyBudgetStore')
                   /\ last'.op = "clearState"
                   /\ last'.forgetVisits
                   /\ last'.outcome = "ok"
                   /\ last'.sites = <<>> \/ c[1] \in SeqRange(last'.sites)]_vars

\* A deduction that failed on a cell that had something left, which is now
\* at 0.
C33_Witness ==
    /\ Attributed(last)
    /\ \E i \in DOMAIN last.attempts :
          /\ ~last.attempts[i].ok
          /\ last.attempts[i].before > 0
          /\ CellValue(privacyBudgetStore, last.topLevelSite, last.attempts[i].epoch) = 0

\* A deduction of positive cost that failed on a cell at 0.
C33_WitnessExhausted ==
    /\ Attributed(last)
    /\ \E i \in DOMAIN last.attempts :
          /\ ~last.attempts[i].ok
          /\ ~last.attempts[i].created
          /\ last.attempts[i].before = 0
          /\ last.attempts[i].deduction > 0

\* A deduction of cost 0, which succeeds on a cell at 0.
C33_WitnessZeroCost ==
    /\ Attributed(last)
    /\ \E i \in DOMAIN last.attempts :
          /\ last.attempts[i].ok
          /\ last.attempts[i].deduction = 0
          /\ last.attempts[i].before = 0

(***************************************************************************)
(* C34: every budget entry holds a value from 0 to                         *)
(* privacyBudgetMicroEpsilons + 1000.  An entry a deduction creates holds  *)
(* privacyBudgetMicroEpsilons + 1000 before the deduction is applied, an   *)
(* entry clearState(_, false) creates holds 0, and nothing else creates    *)
(* an entry.  The value of an entry never increases, a successful          *)
(* deduction lowers it by the deduction, and an entry leaves the store     *)
(* only in a clearState(_, true): so the successful deductions on a cell   *)
(* between two such clears add up to privacyBudgetMicroEpsilons + 1000 at  *)
(* most.                                                                   *)
(***************************************************************************)
C34_BudgetStaysWithinInitialValue ==
    [][/\ \A k \in 1 .. Len(privacyBudgetStore') :
            /\ privacyBudgetStore'[k].value >= 0
            /\ privacyBudgetStore'[k].value <= privacyBudgetMicroEpsilons + 1000
       /\ \A c \in Cells(privacyBudgetStore') \ Cells(privacyBudgetStore) :
            \/ /\ Attributed(last')
               /\ c[1] = parseSite(last'.topLevelSite)
               /\ \E i \in DOMAIN last'.attempts :
                     /\ last'.attempts[i].epoch = c[2]
                     /\ last'.attempts[i].created
                     /\ last'.attempts[i].before = privacyBudgetMicroEpsilons + 1000
                     /\ CellValue(privacyBudgetStore', c[1], c[2])
                          = IF last'.attempts[i].ok
                            THEN privacyBudgetMicroEpsilons + 1000
                                   - last'.attempts[i].deduction
                            ELSE 0
            \/ /\ last'.op = "clearState"
               /\ ~last'.forgetVisits
               /\ c[1] \in SeqRange(last'.sites)
               /\ CellValue(privacyBudgetStore', c[1], c[2]) = 0
       /\ \A c \in Cells(privacyBudgetStore) \cap Cells(privacyBudgetStore') :
            /\ CellValue(privacyBudgetStore', c[1], c[2])
                 <= CellValue(privacyBudgetStore, c[1], c[2])
            /\ Attributed(last') =>
                  \A i \in DOMAIN last'.attempts :
                      (/\ c = <<parseSite(last'.topLevelSite), last'.attempts[i].epoch>>
                       /\ last'.attempts[i].ok)
                          => CellValue(privacyBudgetStore', c[1], c[2])
                               = CellValue(privacyBudgetStore, c[1], c[2])
                                   - last'.attempts[i].deduction
       /\ Cells(privacyBudgetStore) \ Cells(privacyBudgetStore') # {}
            => last'.op = "clearState" /\ last'.forgetVisits]_vars

\* A clearState(_, false) on a store without entries created entries, all
\* at 0.
C34_Witness ==
    /\ last.op = "clearState"
    /\ ~last.forgetVisits
    /\ steps = 1
    /\ privacyBudgetStore # <<>>
    /\ \A k \in 1 .. Len(privacyBudgetStore) : privacyBudgetStore[k].value = 0

\* A deduction created an entry and was paid from it.
C34_WitnessCreated ==
    /\ Attributed(last)
    /\ \E i \in DOMAIN last.attempts :
          /\ last.attempts[i].created
          /\ last.attempts[i].ok
          /\ last.attempts[i].deduction > 0
          /\ CellValue(privacyBudgetStore, last.topLevelSite, last.attempts[i].epoch)
               = privacyBudgetMicroEpsilons + 1000 - last.attempts[i].deduction

\* A cell from which three deductions were paid: what is left of the
\* initial value does not pay a fourth.
C34_WitnessSpent ==
    /\ Attributed(last)
    /\ \E i \in DOMAIN last.attempts :
          /\ last.attempts[i].ok
          /\ CellValue(privacyBudgetStore, last.topLevelSite, last.attempts[i].epoch)
               < last.attempts[i].deduction
          /\ steps >= 4

(***************************************************************************)
(* C35 (as stated): the checks of measureConversion raise a range error    *)
(* whenever value is not a positive integer, maxValue is not a positive    *)
(* integer (a positive maxValue that is no integer included), or value is  *)
(* greater than maxValue.                                                  *)
(***************************************************************************)
C35_InvalidValuesRaiseRangeError ==
    last.op = "validateValueAndMaxValue" =>
        LET in == last.input
            PositiveInteger(x) == x > 0 /\ x % in.unit = 0
        IN  (\/ ~PositiveInteger(in.value)
             \/ ~PositiveInteger(in.maxValue)
             \/ in.value > in.maxValue)
                => last.outcome = "RangeError"

(***************************************************************************)
(* Vocabulary of the impression store.                                     *)
(***************************************************************************)
\* The impression `after` is the impression `before`, up to sites deleted
\* from its conversionSites and conversionCallers.
SameImpression(after, before) ==
    /\ after.conversionSites \subseteq before.conversionSites
    /\ after.conversionCallers \subseteq before.conversionCallers
    /\ [after EXCEPT !.conversionSites = before.conversionSites,
                     !.conversionCallers = before.conversionCallers] = before

\* The impressions of `after` are impressions of `before`, in the order
\* they have in `before`.
RECURSIVE KeepsOrder(_, _)
KeepsOrder(after, before) ==
    IF after = <<>> THEN TRUE
    ELSE IF before = <<>> THEN FALSE
    ELSE IF SameImpression(Head(after), Head(before))
    THEN KeepsOrder(Tail(after), Tail(before))
    ELSE KeepsOrder(after, Tail(before))

\* A number of the options of the call is no integer.
HasFraction(call) ==
    \E x \in {call.options.histogramIndex, call.options.matchValue,
               call.options.lifetimeDays, call.options.priority} :
        x % ImpressionUnit(call.options) # 0

\* The number x of the options of the call.
NumberOf(call, x) == x \div ImpressionUnit(call.options)

(***************************************************************************)
(* C36: an enabled saveImpression that passes its checks appends exactly   *)
(* one impression at the end of the store, with the instant of the call as *)
(* timestamp and min(lifetimeDays, maxLookbackDays) days as lifetime, and  *)
(* changes nothing else; a saveImpression with a number that is no integer *)
(* stores nothing.  Every stored impression has a histogramIndex from 0 to *)
(* maxHistogramSize - 1, a matchValue of 0 or more and a lifetime from 1   *)
(* to maxLookbackDays days.  No operation changes the relative order of    *)
(* the stored impressions: what a step leaves of the store is in the order *)
(* it had.                                                                 *)
(***************************************************************************)
C36_StoreIsAppendOnlyAndValid ==
    [][/\ (last'.op = "saveImpression" /\ last'.outcome = "ok" /\ enabled) =>
            /\ ~HasFraction(last')
            /\ impressions' = Append(impressions,
                  [matchValue        |-> NumberOf(last', last'.options.matchValue),
                   impressionSite    |-> last'.impressionSite,
                   intermediarySite  |-> last'.intermediarySite,
                   conversionSites   |-> SeqRange(last'.options.conversionSites),
                   conversionCallers |-> SeqRange(last'.options.conversionCallers),
                   timestamp         |-> now,
                   lifetime          |-> IF NumberOf(last', last'.options.lifetimeDays)
                                              < maxLookbackDays
                                         THEN NumberOf(last', last'.options.lifetimeDays)
                                         ELSE maxLookbackDays,
                   histogramIndex    |-> NumberOf(last', last'.options.histogramIndex),
                   priority          |-> NumberOf(last', last'.options.priority)])
            /\ UNCHANGED <<enabled, epochStartStore, privacyBudgetStore,
                           lastBrowsingHistoryClear, now>>
       /\ (last'.op = "saveImpression" /\ (last'.outcome # "ok" \/ ~enabled)) =>
            impressions' = impressions
       /\ (last'.op = "saveImpression" /\ HasFraction(last')) =>
            last'.outcome = "RangeError"
       /\ \A k \in 1 .. Len(impressions') :
            /\ impressions'[k].histogramIndex \in 0 .. (maxHistogramSize - 1)
            /\ impressions'[k].matchValue >= 0
            /\ impressions'[k].lifetime \in 1 .. maxLookbackDays
       /\ last'.op # "saveImpression" => KeepsOrder(impressions', impressions)
       /\ last'.op = "saveImpression" =>
            SubSeq(impressions', 1, Len(impressions)) = impressions]_vars

\* A saveImpression with a lifetime above maxLookbackDays has appended an
\* impression, with the capped lifetime, to a store that held others.
C36_Witness ==
    /\ last.op = "saveImpression" /\ last.outcome = "ok"
    /\ last.options.lifetimeDays > maxLookbackDays
    /\ Len(impressions) >= 3
    /\ impressions[Len(impressions)].lifetime = maxLookbackDays
    /\ impressions[Len(impressions)].timestamp = now
    /\ impressions[1].timestamp < now

\* A saveImpression with its numbers in halves, all of them integers, has
\* stored them.
C36_WitnessHalves ==
    /\ last.op = "saveImpression" /\ last.outcome = "ok"
    /\ ImpressionUnit(last.options) = 2
    /\ impressions # <<>>
    /\ impressions[Len(impressions)].matchValue = 3
    /\ impressions[Len(impressions)].priority = -1

\* A saveImpression with a number that is no integer has thrown.
C36_WitnessFraction ==
    /\ last.op = "saveImpression" /\ last.outcome = "RangeError"
    /\ HasFraction(last)
    /\ last.options.priority % 2 # 0
    /\ impressions # <<>>

\* A removal has left two different impressions of a store of three.
C36_WitnessRemoved ==
    /\ last.op \in {"clearState", "clearImpressionsForSite", "clearExpiredImpressions"}
    /\ steps = 4
    /\ now = 0
    /\ enabled
    /\ Len(impressions) = 2
    /\ impressions[1].matchValue # impressions[2].matchValue

(***************************************************************************)
(* C37: no measureConversion raises InvalidStateError.  The attribution    *)
(* returns the all-zero histogram for an empty pool (so that               *)
(* #fillHistogramWithLastNTouchAttribution is not called with one); the    *)
(* credit allocated adds up to `value`, and in the single-epoch regime the *)
(* L1 norm of the histogram is `value` at most.                            *)
(***************************************************************************)
C37_NoInvalidStateError ==
    /\ last.op = "measureConversion" => last.outcome # "InvalidStateError"
    /\ (Attributed(last) /\ last.matched = <<>>) =>
          /\ last.lastN = <<>>
          /\ last.histogram = allZeroHistogram(last.options.histogramSize)
    /\ (Attributed(last) /\ last.credit # <<>>) =>
          /\ last.matched # <<>>
          /\ SumSeq(last.credit) = last.options.value
    /\ SingleEpochCall(last) =>
          \A i \in DOMAIN last.attempts :
              /\ last.attempts[i].l1Norm >= 0
              /\ last.attempts[i].l1Norm <= last.options.value

\* A single-epoch call has shared the value between two impressions by a
\* draw: the L1 norm of the histogram is the value.
C37_Witness ==
    /\ SingleEpochCall(last)
    /\ Len(last.lastN) = 2
    /\ Len(last.options.credit) = 2
    /\ Len(last.attempts) = 1
    /\ last.attempts[1].l1Norm = last.options.value
    /\ last.credit = <<1, 1>>

\* A multi-epoch call whose pool is empty after the sweep (the deductions
\* failed) has returned the all-zero histogram.
C37_WitnessEmptyPool ==
    /\ MultiEpochCall(last)
    /\ last.attempts # <<>>
    /\ last.matched = <<>>
    /\ last.histogram = allZeroHistogram(last.options.histogramSize)

\* A single-epoch call without a match on a store that holds impressions.
C37_WitnessNoMatch ==
    /\ SingleEpochCall(last)
    /\ last.matched = <<>>
    /\ impressions # <<>>

(***************************************************************************)
(* C38: lastBrowsingHistoryClear is written by clearState(_, true) only,   *)
(* which sets it to the instant of the call, and it is never reset to      *)
(* null.  Once it holds an instant T, the start epoch of every site s      *)
(* (one named in the clear or not, with the origin it has or with one      *)
(* drawn now) is epoch_index(s, T) + 2 at least, and a multi-epoch         *)
(* measureConversion on any site makes no deduction for, and gives no      *)
(* credit to an impression of, an epoch before epoch_index(s, T) + 2.      *)
(***************************************************************************)
C38_ClearInstantIsGlobal ==
    [][/\ lastBrowsingHistoryClear' # lastBrowsingHistoryClear =>
            /\ last'.op = "clearState"
            /\ last'.forgetVisits
            /\ last'.outcome = "ok"
       /\ (last'.op = "clearState" /\ last'.forgetVisits /\ last'.outcome = "ok") =>
            lastBrowsingHistoryClear' = now
       /\ lastBrowsingHistoryClear # Null => lastBrowsingHistoryClear' # Null
       /\ lastBrowsingHistoryClear' # Null =>
            \A s \in Sites, p \in Rand :
                LET store == EpochStoreAfter(epochStartStore', s, now', p)
                IN  getStartEpoch(store, lastBrowsingHistoryClear', s, now')
                      >= getCurrentEpoch(store, s, lastBrowsingHistoryClear') + 2
       /\ (MultiEpochCall(last') /\ lastBrowsingHistoryClear' # Null) =>
            LET site  == parseSite(last'.topLevelSite)
                first == getCurrentEpoch(epochStartStore', site,
                                         lastBrowsingHistoryClear') + 2
            IN  /\ last'.startEpoch >= first
                /\ \A i \in DOMAIN last'.attempts : last'.attempts[i].epoch >= first
                /\ \A k \in DOMAIN last'.matched :
                      getCurrentEpoch(epochStartStore', site,
                                      last'.matched[k].timestamp) >= first]_vars

\* A multi-epoch measureConversion on site "a" after a clear that did not
\* name "a" (an impression of "a" from before the clear is still stored):
\* the impression, in the lookback window and not expired, gets no credit.
C38_Witness ==
    /\ MultiEpochCall(last)
    /\ last.topLevelSite = "a"
    /\ lastBrowsingHistoryClear # Null
    /\ \E k \in DOMAIN impressions :
          /\ impressions[k].impressionSite = "a"
          /\ impressions[k].timestamp <= lastBrowsingHistoryClear
          /\ now <= impressions[k].timestamp + impressions[k].lifetime
          /\ now <= impressions[k].timestamp + days(last.options.lookbackDays)
    /\ last.matched = <<>>
    /\ AllZero(last.histogram)

\* A second clearState(_, true) at a later instant has moved
\* lastBrowsingHistoryClear.
C38_WitnessMoved ==
    /\ last.op = "clearState" /\ last.forgetVisits /\ last.outcome = "ok"
    /\ lastBrowsingHistoryClear = now
    /\ now > 0
    /\ last.sites # <<>>

(***************************************************************************)
(* C39: no operation widens the eligibility of a stored impression.  What  *)
(* a step leaves of the store are impressions it held, each with           *)
(* conversionSites and conversionCallers that are subsets of those it had, *)
(* and none with an empty set (which the matcher reads as any site) where  *)
(* it had a set that was not empty: such an impression is removed.         *)
(***************************************************************************)
NotWidened(after, before) ==
    /\ SameImpression(after, before)
    /\ before.conversionSites # {} => after.conversionSites # {}
    /\ before.conversionCallers # {} => after.conversionCallers # {}

\* The impressions of `after` are impressions of `before`, none of them
\* widened, in the order they have in `before`.
RECURSIVE NoneWidened(_, _)
NoneWidened(after, before) ==
    IF after = <<>> THEN TRUE
    ELSE IF before = <<>> THEN FALSE
    ELSE IF NotWidened(Head(after), Head(before))
    THEN NoneWidened(Tail(after), Tail(before))
    ELSE NoneWidened(after, Tail(before))

C39_EligibilityOnlyNarrows ==
    [][/\ last'.op # "saveImpression" => NoneWidened(impressions', impressions)
       /\ last'.op = "saveImpression" =>
            NoneWidened(SubSeq(impressions', 1, Len(impressions)), impressions)
       /\ last'.op = "clearImpressionsForSite" =>
            /\ \A k \in DOMAIN impressions' :
                  /\ last'.site \notin impressions'[k].conversionSites
                  /\ last'.site \notin impressions'[k].conversionCallers
            /\ Len(impressions) - Len(impressions')
                 >= Cardinality({k \in DOMAIN impressions :
                                   \/ impressions[k].conversionSites = {last'.site}
                                   \/ impressions[k].conversionCallers = {last'.site}})]_vars

\* A clearImpressionsForSite("a") has removed an impression and has left
\* one that named "a" and "b" as conversion sites with "b" alone.
C39_Witness ==
    /\ last.op = "clearImpressionsForSite"
    /\ last.site = "a"
    /\ last.removed >= 1
    /\ \E k \in DOMAIN impressions : impressions[k].conversionSites = {"b"}

\* The same for the conversion callers, in a store that also holds an
\* impression open to every conversion site and caller.
C39_WitnessCallers ==
    /\ last.op = "clearImpressionsForSite"
    /\ last.site = "a"
    /\ last.removed >= 1
    /\ \E k \in DOMAIN impressions : impressions[k].conversionCallers = {"b"}
    /\ \E k \in DOMAIN impressions :
          impressions[k].conversionCallers = {} /\ impressions[k].conversionSites = {}

(***************************************************************************)
(* C40: in every reachable state the privacy budget store holds at most    *)
(* one entry for each pair of a site and an epoch, whether the entries     *)
(* were created by the deductions of measureConversion or by the zeroing   *)
(* of clearState(sites, false).                                            *)
(***************************************************************************)
C40_OneEntryPerSiteAndEpoch ==
    \A j, k \in 1 .. Len(privacyBudgetStore) :
        /\ privacyBudgetStore[j].site = privacyBudgetStore[k].site
        /\ privacyBudgetStore[j].epoch = privacyBudgetStore[k].epoch
        => j = k

\* clearState(sites, false) has zeroed cells of a store that holds an
\* entry a deduction created and was paid from.
C40_Witness ==
    /\ last.op = "clearState"
    /\ ~last.forgetVisits
    /\ last.outcome = "ok"
    /\ \E j, k \in 1 .. Len(privacyBudgetStore) :
          /\ privacyBudgetStore[j].value = 0
          /\ privacyBudgetStore[k].value > 0

\* measureConversion has made a deduction attempt on a cell that a
\* clearState(sites, false) had created with value 0: the entry is found,
\* not created again.
C40_WitnessZeroedThenDeducted ==
    /\ Attributed(last)
    /\ \E i \in DOMAIN last.attempts :
          /\ ~last.attempts[i].created
          /\ ~last.attempts[i].ok
          /\ last.attempts[i].deduction > 0
          /\ last.attempts[i].deduction <= privacyBudgetMicroEpsilons
    /\ steps <= 3

====
